---------------------------- MODULE Spec2Model ----------------------------
(***************************************************************************)
(* A model of ServiceTitanClient (src/servicetitan_api_client/client.py):  *)
(* the token cache (_access_token, _token_expiry), the access guard        *)
(* _get_access_token, the token exchange _refresh_access_token and the     *)
(* request pipeline _request with its response classification.             *)
(*                                                                         *)
(* Text is modelled as sequences of one-character strings so that          *)
(* str.lower(), str.startswith(), str.lstrip() and str.replace() are       *)
(* computed and not assumed.  Time is in whole seconds.                    *)
(***************************************************************************)
EXTENDS Integers, Sequences, FiniteSets, TLC

VARIABLES
    access_token,   \* self._access_token
    token_expiry,   \* self._token_expiry
    app_key,        \* self.app_key
    tenant,         \* self.tenant
    base_url,       \* self.base_url
    config,         \* the client's other fields, set by __init__
    user_zone,      \* self._user_zone, an attribute the date helpers add
    now,            \* the wall clock read by time.time()
    nreq,           \* how many requests the caller has made so far
    last,           \* what the last request did and what the caller observed
    outcome,        \* what the last call of another operation did
    threads         \* the host's threads inside a request, and what each holds

vars ==
    <<access_token, token_expiry, app_key, tenant, base_url, config, user_zone,
      now, nreq, last, outcome, threads>>

---------------------------------------------------------------------------
\* Bounds of the model.

\* Requests one caller makes on one client.
MaxRequests == 2

\* Pages the resource server holds for one paginated fetch.
MaxPages == 3

\* Calls of get_all or get_all_id_filter one caller makes on one client.
MaxFetches == 1

---------------------------------------------------------------------------
\* Text helpers.

UpperLetters == <<"A", "B", "C", "D", "E", "F", "G", "H", "I", "J", "K", "L", "M",
                  "N", "O", "P", "Q", "R", "S", "T", "U", "V", "W", "X", "Y", "Z">>

LowerLetters == <<"a", "b", "c", "d", "e", "f", "g", "h", "i", "j", "k", "l", "m",
                  "n", "o", "p", "q", "r", "s", "t", "u", "v", "w", "x", "y", "z">>

\* The lower-case letter of each upper-case letter, and the reverse.
ToLower ==
    [c \in {UpperLetters[i] : i \in DOMAIN UpperLetters} |->
        LowerLetters[CHOOSE i \in DOMAIN UpperLetters : UpperLetters[i] = c]]

ToUpper ==
    [c \in {LowerLetters[i] : i \in DOMAIN LowerLetters} |->
        UpperLetters[CHOOSE i \in DOMAIN LowerLetters : LowerLetters[i] = c]]

\* One character of str.lower().
LowerChar(c) == IF c \in DOMAIN ToLower THEN ToLower[c] ELSE c

\* str.lower()
Lower(s) == [i \in DOMAIN s |-> LowerChar(s[i])]

\* str.startswith(prefix)
StartsWith(s, prefix) ==
    /\ Len(s) >= Len(prefix)
    /\ SubSeq(s, 1, Len(prefix)) = prefix

\* str.lstrip("/")
RECURSIVE LStripSlash(_)
LStripSlash(s) ==
    IF s # <<>> /\ Head(s) = "/" THEN LStripSlash(Tail(s)) ELSE s

\* str.rstrip("/")
RECURSIVE RStripSlash(_)
RStripSlash(s) ==
    IF s # <<>> /\ s[Len(s)] = "/" THEN RStripSlash(SubSeq(s, 1, Len(s) - 1)) ELSE s

\* One character of str.upper().
UpperChar(c) == IF c \in DOMAIN ToUpper THEN ToUpper[c] ELSE c

\* str.upper()
Upper(s) == [i \in DOMAIN s |-> UpperChar(s[i])]

\* The first index at which old occurs in s, or 0: str.find, one-based.
FindFirst(s, old) ==
    LET hits == {i \in 1..(Len(s) - Len(old) + 1) : SubSeq(s, i, i + Len(old) - 1) = old}
    IN  IF hits = {} THEN 0 ELSE CHOOSE i \in hits : \A j \in hits : i <= j

\* str.replace(old, new, 1)
ReplaceFirst(s, old, new) ==
    LET i == FindFirst(s, old)
    IN  IF i = 0 THEN s
        ELSE SubSeq(s, 1, i - 1) \o new \o SubSeq(s, i + Len(old), Len(s))

\* A dict with no entries, and a dict as a function from its keys.
EmptyDict == [k \in {} |-> <<>>]

Str_Content_Type == <<"C", "o", "n", "t", "e", "n", "t", "-", "T", "y", "p", "e">>
Str_http == <<"h", "t", "t", "p", ":", "/", "/">>
Str_https == <<"h", "t", "t", "p", "s", ":", "/", "/">>
Str_tenant == <<"t", "e", "n", "a", "n", "t", "/">>
Str_authorization == <<"a", "u", "t", "h", "o", "r", "i", "z", "a", "t", "i", "o", "n">>
Str_st_app_key == <<"s", "t", "-", "a", "p", "p", "-", "k", "e", "y">>
Str_Authorization == <<"A", "u", "t", "h", "o", "r", "i", "z", "a", "t", "i", "o", "n">>
Str_ST_App_Key == <<"S", "T", "-", "A", "p", "p", "-", "K", "e", "y">>
Str_application_json == <<"a", "p", "p", "l", "i", "c", "a", "t", "i", "o", "n", "/", "j", "s", "o", "n">>
Str_image == <<"i", "m", "a", "g", "e", "/">>
Str_octet_stream == <<"a", "p", "p", "l", "i", "c", "a", "t", "i", "o", "n", "/", "o", "c", "t", "e", "t", "-", "s", "t", "r", "e", "a", "m">>

---------------------------------------------------------------------------
\* Python values that come out of a JSON body.  Every value has the same
\* three fields so that values of different Python types can be compared.

JNull == [kind |-> "null", num |-> 0, str |-> ""]          \* None
JMissing == [kind |-> "missing", num |-> 0, str |-> ""]    \* the key is not in the object
JInt(i) == [kind |-> "int", num |-> i, str |-> ""]
JStr(x) == [kind |-> "str", num |-> 0, str |-> x]
JBool(b) == [kind |-> "bool", num |-> IF b THEN 1 ELSE 0, str |-> ""]

None == JNull

\* dict.get(key): None when the key is missing.
Get(obj, key) == IF obj[key].kind = "missing" THEN None ELSE obj[key]

\* Python truthiness, as used by "not x".
Truthy(v) ==
    CASE v.kind = "null" -> FALSE
      [] v.kind = "missing" -> FALSE
      [] v.kind = "str" -> v.str # ""
      [] v.kind = "int" -> v.num # 0
      [] v.kind = "bool" -> v.num # 0

\* isinstance(v, (int, float)); bool is a subclass of int.
IsNumber(v) == v.kind \in {"int", "bool"}

\* float(v) of a number, in whole seconds.
ToFloat(v) == v.num

---------------------------------------------------------------------------
\* Program constants.

\* The guard refreshes when the token expires within this many seconds.
SafetyMargin == 60

\* The lifetime used when the token response declares no numeric expires_in.
DefaultExpiresIn == 900

---------------------------------------------------------------------------
\* The token exchange.
\*
\* A token response is a record
\*   conn          "error" when requests.post raised, else "response"
\*   status        the HTTP status
\*   decodes       what response.json() yields: "object" (a dict), "other"
\*                 (valid JSON that is not a dict) or "invalid" (it raises)
\*   access_token  the value under "access_token" of the object, or JMissing
\*   expires_in    the value under "expires_in" of the object, or JMissing

\* requests.Response.ok
Ok(resp) == resp.status < 400

NoRaise == "none"

\* A slip of the expiry: the ten seconds the comment above the assignment
\* speaks of are taken off.
ExpiryOfLessMargin(resp, t) ==
    LET expires_in == Get(resp, "expires_in")
    IN  t + (IF IsNumber(expires_in) THEN ToFloat(expires_in) ELSE DefaultExpiresIn) - 10

\* The clock value stored as expiry: time.time() + float(expires_in), with the
\* default applied to a value that is not a number.
ExpiryOf(resp, t) ==
    LET expires_in == Get(resp, "expires_in")
    IN  t + (IF IsNumber(expires_in) THEN ToFloat(expires_in) ELSE DefaultExpiresIn)

\* A slip of _refresh_access_token: the response's access_token is stored
\* before it is validated.
RefreshStoresBeforeCheck(self, resp, t) ==
    CASE resp.conn = "error" ->
            [self |-> self, raised |-> "ServiceTitanAuthError"]
      [] ~Ok(resp) ->
            [self |-> self, raised |-> "ServiceTitanAuthError"]
      [] resp.decodes = "invalid" ->
            [self |-> self, raised |-> "ValueError"]
      [] resp.decodes = "other" ->
            [self |-> self, raised |-> "AttributeError"]
      [] ~Truthy(Get(resp, "access_token")) ->
            [self |-> [self EXCEPT !.access_token = Get(resp, "access_token")],
             raised |-> "ServiceTitanAuthError"]
      [] OTHER ->
            [self |-> [self EXCEPT !.access_token = Get(resp, "access_token"),
                                   !.token_expiry = ExpiryOf(resp, t)],
             raised |-> NoRaise]

\* A slip of _refresh_access_token: the access_token of the response is
\* stored without the test for an empty one.
RefreshAcceptsAnyToken(self, resp, t) ==
    CASE resp.conn = "error" ->
            [self |-> self, raised |-> "ServiceTitanAuthError"]
      [] ~Ok(resp) ->
            [self |-> self, raised |-> "ServiceTitanAuthError"]
      [] resp.decodes = "invalid" ->
            [self |-> self, raised |-> "ValueError"]
      [] resp.decodes = "other" ->
            [self |-> self, raised |-> "AttributeError"]
      [] OTHER ->
            [self |-> [self EXCEPT !.access_token = Get(resp, "access_token"),
                                   !.token_expiry = ExpiryOf(resp, t)],
             raised |-> NoRaise]

\* _refresh_access_token, given the token response resp and the clock value t
\* that time.time() yields when the expiry is computed.  The result is the
\* client afterwards and the exception raised, if any.
RefreshAccessToken(self, resp, t) ==
    CASE resp.conn = "error" ->
            \* requests.post raised: except Exception
            [self |-> self, raised |-> "ServiceTitanAuthError"]
      [] ~Ok(resp) ->
            [self |-> self, raised |-> "ServiceTitanAuthError"]
      [] resp.decodes = "invalid" ->
            \* response.json() raises outside any try
            [self |-> self, raised |-> "ValueError"]
      [] resp.decodes = "other" ->
            \* token_info.get on a value that is not a dict
            [self |-> self, raised |-> "AttributeError"]
      [] ~Truthy(Get(resp, "access_token")) ->
            [self |-> self, raised |-> "ServiceTitanAuthError"]
      [] OTHER ->
            [self |-> [self EXCEPT !.access_token = Get(resp, "access_token"),
                                   !.token_expiry = ExpiryOf(resp, t)],
             raised |-> NoRaise]

\* A slip of the guard: it compares against the expiry itself.
NeedsRefreshNoMargin(self, t0) ==
    \/ ~Truthy(self.access_token)
    \/ t0 >= self.token_expiry

\* A slip of the guard: a stored token is never looked at again.
NeedsRefreshOnlyWhenAbsent(self, t0) ==
    ~Truthy(self.access_token)

\* A slip of the guard: it refreshes on every call.
NeedsRefreshAlways(self, t0) ==
    TRUE

\* A slip of the guard: the comparison with the margin is strict.
NeedsRefreshLate(self, t0) ==
    \/ ~Truthy(self.access_token)
    \/ t0 > self.token_expiry - SafetyMargin

\* The condition under which the guard refreshes.
NeedsRefresh(self, t0) ==
    \/ ~Truthy(self.access_token)
    \/ t0 >= self.token_expiry - SafetyMargin

\* A slip of the guard: a failed exchange is tried once more (the second
\* attempt gets the same answer from the authorization server).
GetAccessTokenRetrying(self, t0, resp, t) ==
    IF NeedsRefresh(self, t0)
    THEN LET r == RefreshAccessToken(self, resp, t)
         IN  [self |-> r.self,
              exchanges |-> IF r.raised = NoRaise THEN 1 ELSE 2,
              raised |-> r.raised,
              ret |-> IF r.raised = NoRaise THEN r.self.access_token ELSE None,
              tRet |-> t]
    ELSE [self |-> self, exchanges |-> 0, raised |-> NoRaise,
          ret |-> self.access_token, tRet |-> t0]

\* _get_access_token, given the clock value t0 it reads on entry.  The
\* result is the client afterwards, the number of token exchanges performed,
\* the exception raised, the token returned and the clock value at return.
GetAccessToken(self, t0, resp, t) ==
    IF NeedsRefresh(self, t0)
    THEN LET r == RefreshAccessToken(self, resp, t)
         IN  [self |-> r.self,
              exchanges |-> 1,
              raised |-> IF r.raised # NoRaise THEN r.raised
                         ELSE IF r.self.access_token = None THEN "AssertionError"
                         ELSE NoRaise,
              ret |-> IF r.raised = NoRaise THEN r.self.access_token ELSE None,
              tRet |-> t]
    ELSE [self |-> self,
          exchanges |-> 0,
          raised |-> IF self.access_token = None THEN "AssertionError" ELSE NoRaise,
          ret |-> self.access_token,
          tRet |-> t0]

---------------------------------------------------------------------------
\* The request pipeline.
\*
\* self is the client: [access_token, token_expiry, app_key, tenant, base_url].
\* An absent tenant (None) and an empty one behave alike everywhere the code
\* reads it ("if self.tenant", "tenant or self.tenant"), and both are the
\* empty text here.

\* A slip of _prepare_url: the tenant goes after the first "tenant/" wherever
\* it stands in the path.
PrepareUrlAnywhere(self, path) ==
    IF StartsWith(path, Str_http) \/ StartsWith(path, Str_https)
    THEN path
    ELSE LET clean_path == LStripSlash(path)
             spliced ==
                 IF self.tenant # <<>>
                 THEN ReplaceFirst(clean_path, Str_tenant,
                                   Str_tenant \o self.tenant \o <<"/">>)
                 ELSE clean_path
         IN  RStripSlash(self.base_url) \o <<"/">> \o spliced

\* A slip of _prepare_url: a path that is a URL already is joined to the
\* base URL like any other.
PrepareUrlJoining(self, path) ==
    LET clean_path == LStripSlash(path)
        spliced ==
            IF self.tenant # <<>> /\ StartsWith(clean_path, Str_tenant)
            THEN ReplaceFirst(clean_path, Str_tenant,
                              Str_tenant \o self.tenant \o <<"/">>)
            ELSE clean_path
    IN  RStripSlash(self.base_url) \o <<"/">> \o spliced

\* _prepare_url
PrepareUrl(self, path) ==
    IF StartsWith(path, Str_http) \/ StartsWith(path, Str_https)
    THEN path
    ELSE LET clean_path == LStripSlash(path)
             spliced ==
                 IF self.tenant # <<>> /\ StartsWith(clean_path, Str_tenant)
                 THEN ReplaceFirst(clean_path, Str_tenant,
                                   Str_tenant \o self.tenant \o <<"/">>)
                 ELSE clean_path
         IN  RStripSlash(self.base_url) \o <<"/">> \o spliced

\* A header value is a pair of texts read as their concatenation.
\* f"Bearer {token}" of a token that is a str:
Bearer(token) == <<"Bearer ", token.str>>

\* A header value that is one plain text.
Plain(text) == <<"", text>>

\* A slip of the header filter: the names are compared without lower().
KeptHeadersCaseSensitive(headers) ==
    {k \in DOMAIN headers : k \notin {Str_authorization, Str_st_app_key}}

\* The caller's header names that _request lets through.
KeptHeaders(headers) ==
    {k \in DOMAIN headers : Lower(k) \notin {Str_authorization, Str_st_app_key}}

\* The headers _request sends: the two it sets itself, then the caller's
\* other headers written over them.
BuildHeaders(self, token, headers) ==
    LET own == {Str_Authorization, Str_ST_App_Key}
        kept == KeptHeaders(headers)
    IN  [k \in own \cup kept |->
            IF k \in kept THEN headers[k]
            ELSE IF k = Str_Authorization THEN Bearer(token)
            ELSE Plain(self.app_key)]

\* A resource response is a record
\*   conn     "error" when requests.request raised, else "response"
\*   status   response.status_code
\*   headers  response.headers, looked up without regard to case
\*   raw      the body; response.text and response.content are views of it
\*   json     what response.json() yields, or JsonInvalid when it raises

JsonInvalid == "invalid"

\* response.headers.get(name, default) on requests' case-insensitive dict.
HeaderGet(headers, name, default) ==
    LET hits == {k \in DOMAIN headers : Lower(k) = Lower(name)}
    IN  IF hits = {} THEN default ELSE headers[CHOOSE k \in hits : TRUE]

ResponseText(resp) == <<"text", resp.raw>>
ResponseContent(resp) == <<"bytes", resp.raw>>
ResponseJson(resp) == <<"json", resp.json>>

\* str(err_json): the text of the decoded value.
StrOfJson(resp) == <<"str", resp.json>>

NoPayload == <<"", "">>
NoError == [status |-> 0, url |-> <<>>, text |-> NoPayload]

\* The body an error carries: err_text of _request.
ErrText(resp) ==
    IF resp.json # JsonInvalid THEN StrOfJson(resp) ELSE ResponseText(resp)

\* The payload _request returns for a response with status < 400.
Payload(resp) ==
    LET content_type == Lower(HeaderGet(resp.headers, Str_Content_Type, <<>>))
    IN  IF StartsWith(content_type, Str_application_json)
        THEN IF resp.json # JsonInvalid THEN ResponseJson(resp) ELSE ResponseText(resp)
        ELSE IF StartsWith(content_type, Str_image)
                \/ StartsWith(content_type, Str_octet_stream)
        THEN ResponseContent(resp)
        ELSE ResponseText(resp)

\* The status from which a response is an error.
ErrorStatus == 400

\* A slip of the status classification: only server errors are errors.
IsErrorStatusServerOnly(status) == status >= 500

\* response.status_code >= 400
IsErrorStatus(status) == status >= ErrorStatus

NotSent == [verb |-> <<>>, url |-> <<>>, headers |-> EmptyDict, sentAt |-> 0]

\* What the transport is asked to send.
Outgoing(self, method, url, token, headers, at) ==
    [verb |-> Upper(method), url |-> url,
     headers |-> BuildHeaders(self, token, headers), sentAt |-> at]

\* A slip of _request: a 401 from the resource server drops the stored
\* token.
DispatchForgetting(self, method, url, g, headers, resp) ==
    LET sent == Outgoing(self, method, url, g.ret, headers, g.tRet)
        base == [self |-> g.self, exchanges |-> g.exchanges, calls |-> 1,
                 raised |-> NoRaise, err |-> NoError, ret |-> g.ret,
                 tRet |-> g.tRet, sent |-> sent, payload |-> NoPayload]
    IN  IF resp.conn = "error"
        THEN [base EXCEPT !.raised = "ServiceTitanAPIError",
                          !.err = [status |-> 0, url |-> url,
                                   text |-> <<"exc", resp.raw>>]]
        ELSE IF IsErrorStatus(resp.status)
        THEN [base EXCEPT !.raised = "ServiceTitanAPIError",
                          !.self = IF resp.status = 401
                                   THEN [@ EXCEPT !.access_token = None,
                                                  !.token_expiry = 0]
                                   ELSE @,
                          !.err = [status |-> resp.status, url |-> url,
                                   text |-> ErrText(resp)]]
        ELSE [base EXCEPT !.payload = Payload(resp)]

\* The part of _request after the token is obtained: the resource call and
\* the classification of its response.  calls counts the calls of
\* requests.request.
Dispatch(self, method, url, g, headers, resp) ==
    LET sent == Outgoing(self, method, url, g.ret, headers, g.tRet)
        base == [self |-> g.self, exchanges |-> g.exchanges, calls |-> 1,
                 raised |-> NoRaise, err |-> NoError, ret |-> g.ret,
                 tRet |-> g.tRet, sent |-> sent, payload |-> NoPayload]
    IN  IF resp.conn = "error"
        THEN [base EXCEPT !.raised = "ServiceTitanAPIError",
                          !.err = [status |-> 0, url |-> url,
                                   text |-> <<"exc", resp.raw>>]]
        ELSE IF IsErrorStatus(resp.status)
        THEN [base EXCEPT !.raised = "ServiceTitanAPIError",
                          !.err = [status |-> resp.status, url |-> url,
                                   text |-> ErrText(resp)]]
        ELSE [base EXCEPT !.payload = Payload(resp)]

\* _request, given what the world answers: env.t0 is the clock when the
\* guard reads it, env.auth the token response should one be asked for,
\* env.t1 the clock when the expiry is computed, env.resp the resource
\* response.
Request(self, method, path, headers, env) ==
    LET url == PrepareUrl(self, path)
        g == GetAccessToken(self, env.t0, env.auth, env.t1)
    IN  IF g.raised # NoRaise
        THEN [self |-> g.self, exchanges |-> g.exchanges, calls |-> 0,
              raised |-> g.raised, err |-> NoError, ret |-> None,
              tRet |-> g.tRet, sent |-> NotSent, payload |-> NoPayload]
        ELSE Dispatch(self, method, url, g, headers, env.resp)

---------------------------------------------------------------------------
\* The repository's second copy of the module, src/client.py.  Its
\* _refresh_access_token, _get_access_token and _prepare_url are the same
\* code, and so is its _request up to the status check; it ends differently.

\* The payload the second copy's _request returns for a response with
\* status < 400: the decoded JSON whenever the body decodes, whatever the
\* content type, else the text.
RootCopyPayload(resp) ==
    IF resp.json # JsonInvalid THEN ResponseJson(resp) ELSE ResponseText(resp)

\* The second copy's resource call and classification.
RootCopyDispatch(self, method, url, g, headers, resp) ==
    LET r == Dispatch(self, method, url, g, headers, resp)
    IN  IF r.raised = NoRaise
        THEN [r EXCEPT !.payload = RootCopyPayload(resp)]
        ELSE r

\* A slip of the second copy's _get_access_token: the guard has no safety
\* margin.
RootCopyGetAccessTokenNoMargin(self, t0, resp, t) ==
    IF NeedsRefreshNoMargin(self, t0)
    THEN LET r == RefreshAccessToken(self, resp, t)
         IN  [self |-> r.self,
              exchanges |-> 1,
              raised |-> IF r.raised # NoRaise THEN r.raised
                         ELSE IF r.self.access_token = None THEN "AssertionError"
                         ELSE NoRaise,
              ret |-> IF r.raised = NoRaise THEN r.self.access_token ELSE None,
              tRet |-> t]
    ELSE [self |-> self,
          exchanges |-> 0,
          raised |-> IF self.access_token = None THEN "AssertionError" ELSE NoRaise,
          ret |-> self.access_token,
          tRet |-> t0]

\* The second copy's _get_access_token and _refresh_access_token: line for
\* line the text of the package's.
RootCopyGetAccessToken(self, t0, resp, t) == GetAccessToken(self, t0, resp, t)

\* The second copy's _prepare_url: line for line the text of the package's.
RootCopyPrepareUrl(self, path) == PrepareUrl(self, path)

\* The second copy's _request.
RootCopyRequest(self, method, path, headers, env) ==
    LET url == RootCopyPrepareUrl(self, path)
        g == RootCopyGetAccessToken(self, env.t0, env.auth, env.t1)
    IN  IF g.raised # NoRaise
        THEN [self |-> g.self, exchanges |-> g.exchanges, calls |-> 0,
              raised |-> g.raised, err |-> NoError, ret |-> None,
              tRet |-> g.tRet, sent |-> NotSent, payload |-> NoPayload]
        ELSE RootCopyDispatch(self, method, url, g, headers, env.resp)

---------------------------------------------------------------------------
\* The public verbs: parameter-shape wrappers over _request.

Str_GET == <<"G", "E", "T">>
Str_POST == <<"P", "O", "S", "T">>
Str_PUT == <<"P", "U", "T">>
Str_PATCH == <<"P", "A", "T", "C", "H">>
Str_DELETE == <<"D", "E", "L", "E", "T", "E">>

get(self, path, headers, env) == Request(self, Str_GET, path, headers, env)
post(self, path, headers, env) == Request(self, Str_POST, path, headers, env)
put(self, path, headers, env) == Request(self, Str_PUT, path, headers, env)
patch(self, path, headers, env) == Request(self, Str_PATCH, path, headers, env)
delete(self, path, headers, env) == Request(self, Str_DELETE, path, headers, env)

\* get and post of the second copy.
RootCopyGet(self, path, headers, env) == RootCopyRequest(self, Str_GET, path, headers, env)
RootCopyPost(self, path, headers, env) == RootCopyRequest(self, Str_POST, path, headers, env)

---------------------------------------------------------------------------
\* Decoded JSON bodies.
\*
\* A resource response names its decoded body (resp.json); what the body
\* holds is looked up here.  A body is a JSON object (a dict to the code) or
\* some other JSON value.  Of an object, data is what resp.get("data")
\* yields and hasMore what resp.get("hasMore") yields.

DataList(items) == [kind |-> "list", items |-> items]
DataMissing == [kind |-> "missing", items |-> <<>>]
DataNull == [kind |-> "null", items |-> <<>>]
DataNumber == [kind |-> "number", items |-> <<>>]

JsonObject(data, hasMore) == [dict |-> TRUE, data |-> data, hasMore |-> hasMore]
JsonArray == [dict |-> FALSE, data |-> DataMissing, hasMore |-> JMissing]

Doc(j) ==
    CASE j = "obj-a" -> JsonObject(DataMissing, JMissing)
      [] j = "page-a-more" -> JsonObject(DataList(<<"a1", "a2">>), JBool(TRUE))
      [] j = "page-b-more" -> JsonObject(DataList(<<"b1">>), JBool(TRUE))
      [] j = "page-c-last" -> JsonObject(DataList(<<"c1", "c2">>), JBool(FALSE))
      [] j = "page-d-end" -> JsonObject(DataList(<<"d1">>), JMissing)
      [] j = "page-empty-more" -> JsonObject(DataList(<<>>), JBool(TRUE))
      [] j = "page-nodata-more" -> JsonObject(DataMissing, JBool(TRUE))
      [] j = "page-null-last" -> JsonObject(DataNull, JBool(FALSE))
      [] j = "page-number" -> JsonObject(DataNumber, JBool(TRUE))
      [] j = "array" -> JsonArray

\* isinstance(resp, dict) of what _request returned.
IsDict(payload) == payload[1] = "json" /\ Doc(payload[2]).dict

\* resp.get("data") of a dict.
DataOf(payload) == Doc(payload[2]).data

\* A slip of get_all: hasMore is not looked at.
HasMoreIgnored(payload) == JBool(FALSE)

\* resp.get("hasMore") of a dict.
HasMoreOf(payload) == Doc(payload[2]).hasMore

\* bool(data): a missing or null data and an empty list are falsy; the
\* number of the model is not zero.
DataTruthy(data) ==
    \/ data.kind = "number"
    \/ data.kind = "list" /\ data.items # <<>>

\* data or []
DataOrEmpty(data) == IF DataTruthy(data) THEN data ELSE DataList(<<>>)

---------------------------------------------------------------------------
\* get_all: the paginated fetch.
\*
\* world is what the servers answer, page by page: world[k].auth is the
\* token response should the request of page k ask for one, world[k].d the
\* time that exchange takes, world[k].resp the resource response.

\* get_all has not run: nothing asked, nothing gathered.
GetAllStart(self, t) ==
    [self |-> self, t |-> t, output |-> <<>>, asked |-> <<>>, pages |-> <<>>,
     exchanges |-> 0, calls |-> 0, raised |-> NoRaise]

\* The loop of get_all from the given page on.  acc.asked lists the values
\* of params['page'] passed to self.get so far, acc.pages what each of
\* these calls raised or returned.
RECURSIVE GetAllLoop(_, _, _, _, _)

\* The record of get_all after self.get did r for the given page.
GetAllSeen(r, page, acc) ==
    [acc EXCEPT !.self = r.self, !.t = r.tRet,
                !.asked = Append(@, page),
                !.pages = Append(@, [raised |-> r.raised, payload |-> r.payload]),
                !.exchanges = @ + r.exchanges,
                !.calls = @ + r.calls]

\* The body of the loop after self.get raised or returned payload, seen
\* being the record up to and including that call.
GetAllNext(path, headers, world, page, raised, payload, seen) ==
    IF raised # NoRaise
    THEN seen                       \* except Exception: break
    ELSE IF ~IsDict(payload)
    THEN seen
    ELSE IF DataOrEmpty(DataOf(payload)).kind # "list"
    THEN \* output.extend of a value that is not iterable
         [seen EXCEPT !.raised = "TypeError"]
    ELSE \* the world's last page never declares more
         IF Truthy(HasMoreOf(payload)) /\ page < Len(world)
         THEN GetAllLoop(path, headers, world, page + 1,
                         [seen EXCEPT !.output = @ \o DataOrEmpty(DataOf(payload)).items])
         ELSE [seen EXCEPT !.output = @ \o DataOrEmpty(DataOf(payload)).items]

\* One self.get of the loop, and what the loop makes of it.
GetAllPage(path, headers, world, page, acc, r) ==
    GetAllNext(path, headers, world, page, r.raised, r.payload, GetAllSeen(r, page, acc))

GetAllLoop(path, headers, world, page, acc) ==
    GetAllPage(path, headers, world, page, acc,
               get(acc.self, path, headers,
                   [t0 |-> acc.t, auth |-> world[page].auth,
                    t1 |-> acc.t + world[page].d, resp |-> world[page].resp]))

\* A slip of get_all: the failure of a page is raised to the caller.
GetAllRaising(self, path, headers, world, t) ==
    LET r == GetAllLoop(path, headers, world, 1, GetAllStart(self, t))
        failed == r.pages[Len(r.pages)].raised
    IN  IF failed # NoRaise THEN [r EXCEPT !.raised = failed] ELSE r

\* get_all, called at clock value t.
GetAll(self, path, headers, world, t) ==
    GetAllLoop(path, headers, world, 1, GetAllStart(self, t))

---------------------------------------------------------------------------
\* get_all_id_filter: the batched identifier filter.
\*
\* ids is a sequence of texts.  params maps parameter names to texts; the
\* empty map also stands for params=None.  world[k] is what the servers
\* answer to the k-th request.

\* Identifiers per request.
ChunkSize == 50

\* ','.join(ids)
RECURSIVE Join(_)
Join(ids) ==
    IF ids = <<>> THEN <<>>
    ELSE IF Len(ids) = 1 THEN ids[1]
    ELSE ids[1] \o <<",">> \o Join(Tail(ids))

\* A slip of the slicing: the upper index is taken as included.
SliceInclusive(ids, a, b) ==
    SubSeq(ids, a + 1, IF b + 1 < Len(ids) THEN b + 1 ELSE Len(ids))

\* ids[a:b] for 0 <= a <= b
Slice(ids, a, b) == SubSeq(ids, a + 1, IF b < Len(ids) THEN b ELSE Len(ids))

\* params[name] = value
SetParam(params, name, value) ==
    [k \in DOMAIN params \cup {name} |-> IF k = name THEN value ELSE params[k]]

\* A slip of the fetches: they work on a copy of the caller's params.
CallerParamsCopied(params, local) == params

\* The caller's params object after a fetch whose local name params ended
\* up as local: "if params" keeps the caller's object under the local name
\* when it is not empty, so every assignment went into it; for None or an
\* empty mapping the local name was bound to a new dict.
CallerParamsAfter(params, local) ==
    IF params # EmptyDict THEN local ELSE params

\* get_all_id_filter before its first request.
IdFilterStart(self, params, t) ==
    [self |-> self, t |-> t, params |-> params, data |-> <<>>, sent |-> <<>>,
     pages |-> <<>>, exchanges |-> 0, calls |-> 0, raised |-> NoRaise, ret |-> DataMissing]

\* The record of get_all_id_filter after self.get did r with the given
\* params, and the payload returned.  acc.sent lists the params of every
\* call of self.get, acc.pages what each call raised or returned.
IdFilterSeen(r, params, acc) ==
    [acc |-> [acc EXCEPT !.self = r.self, !.t = r.tRet, !.params = params,
                         !.sent = Append(@, params),
                         !.pages = Append(@, [raised |-> r.raised,
                                              payload |-> r.payload]),
                         !.exchanges = @ + r.exchanges,
                         !.calls = @ + r.calls,
                         !.raised = r.raised],
     payload |-> r.payload]

\* One self.get of get_all_id_filter with the given params.
IdFilterGet(path, headers, env, params, acc) ==
    IdFilterSeen(get(acc.self, path, headers,
                     [t0 |-> acc.t, auth |-> env.auth, t1 |-> acc.t + env.d,
                      resp |-> env.resp]),
                 params, acc)

\* The loop of the two branches for 50 identifiers or more: requests
\* i, i+1, ..., count-1 of "for i in range(count)".
RECURSIVE IdFilterLoop(_, _, _, _, _, _, _)

\* The body of the loop after its self.get, g being what IdFilterGet
\* yields.
IdFilterNext(path, ids, headers, world, i, count, g) ==
    IF g.acc.raised # NoRaise
    THEN g.acc
    ELSE IF ~IsDict(g.payload)
    THEN [g.acc EXCEPT !.raised = "AttributeError"]   \* resp.get
    ELSE IF DataOf(g.payload).kind # "list"
    THEN [g.acc EXCEPT !.raised = "TypeError"]        \* data.extend
    ELSE IdFilterLoop(path, ids, headers, world, i + 1, count,
                      [g.acc EXCEPT !.data = @ \o DataOf(g.payload).items])

IdFilterLoop(path, ids, headers, world, i, count, acc) ==
    IF i >= count
    THEN [acc EXCEPT !.ret = DataList(acc.data)]
    ELSE IdFilterNext(path, ids, headers, world, i, count,
                      IdFilterGet(path, headers, world[i + 1],
                                  SetParam(acc.params, "ids",
                                           Join(Slice(ids, ChunkSize * i,
                                                      ChunkSize * (i + 1)))),
                                  acc))

\* The branch for fewer than 50 identifiers after its one self.get.
IdFilterSingle(g) ==
    IF g.acc.raised # NoRaise
    THEN g.acc
    ELSE IF ~IsDict(g.payload)
    THEN [g.acc EXCEPT !.raised = "AttributeError"]
    ELSE [g.acc EXCEPT !.ret = DataOrEmpty(DataOf(g.payload))]

\* A slip of get_all_id_filter: like get_all it ends on the failure of a
\* request and returns what it has.
GetAllIdFilterPartial(self, path, ids, id_filter_name, params, headers, world, t) ==
    LET r == IdFilterLoop(path, ids, headers, world, 0,
                          (Len(ids) + ChunkSize - 1) \div ChunkSize,
                          IdFilterStart(self, params, t))
    IN  IF r.raised # NoRaise
        THEN [r EXCEPT !.raised = NoRaise, !.ret = DataList(r.data)]
        ELSE r

\* A get_all_id_filter that special-cases the empty list: no request, an
\* empty result.
GetAllIdFilterSkippingEmpty(self, path, ids, id_filter_name, params, headers, world, t) ==
    IF Len(ids) = 0
    THEN [IdFilterStart(self, params, t) EXCEPT !.ret = DataList(<<>>)]
    ELSE IF Len(ids) < ChunkSize
    THEN IdFilterSingle(IdFilterGet(path, headers, world[1],
                                    SetParam(params, id_filter_name, Join(ids)),
                                    IdFilterStart(self, params, t)))
    ELSE IdFilterLoop(path, ids, headers, world, 0,
                      (Len(ids) + ChunkSize - 1) \div ChunkSize,
                      IdFilterStart(self, params, t))

\* get_all_id_filter, called at clock value t.
GetAllIdFilter(self, path, ids, id_filter_name, params, headers, world, t) ==
    IF Len(ids) < ChunkSize
    THEN IdFilterSingle(IdFilterGet(path, headers, world[1],
                                    SetParam(params, id_filter_name, Join(ids)),
                                    IdFilterStart(self, params, t)))
    ELSE IF Len(ids) % ChunkSize = 0
    THEN IdFilterLoop(path, ids, headers, world, 0, Len(ids) \div ChunkSize,
                      IdFilterStart(self, params, t))
    ELSE IdFilterLoop(path, ids, headers, world, 0, (Len(ids) \div ChunkSize) + 1,
                      IdFilterStart(self, params, t))

---------------------------------------------------------------------------
\* The inputs the model draws from.

Hdr_AUTHORIZATION == <<"A", "U", "T", "H", "O", "R", "I", "Z", "A", "T", "I", "O", "N">>
Hdr_St_App_Key == <<"S", "t", "-", "A", "p", "p", "-", "K", "e", "y">>
Hdr_Accept == <<"A", "c", "c", "e", "p", "t">>
Hdr_X_Trace == <<"X", "-", "T", "r", "a", "c", "e">>
Ct_json_charset == <<"A", "p", "p", "l", "i", "c", "a", "t", "i", "o", "n", "/", "J", "S", "O", "N", ";", " ", "c", "h", "a", "r", "s", "e", "t", "=", "u", "t", "f", "-", "8">>
Ct_GIF == <<"I", "M", "A", "G", "E", "/", "G", "I", "F">>
Ct_octet == <<"A", "p", "p", "l", "i", "c", "a", "t", "i", "o", "n", "/", "O", "c", "t", "e", "t", "-", "S", "t", "r", "e", "a", "m">>
Ct_text == <<"t", "e", "x", "t", "/", "p", "l", "a", "i", "n">>
Ct_hal == <<"a", "p", "p", "l", "i", "c", "a", "t", "i", "o", "n", "/", "h", "a", "l", "+", "j", "s", "o", "n">>
Hdr_content_type == <<"c", "o", "n", "t", "e", "n", "t", "-", "t", "y", "p", "e">>
Path_jobs == <<"j", "p", "m", "/", "v", "2", "/", "j", "o", "b", "s">>
Path_tenant_employees == <<"/", "t", "e", "n", "a", "n", "t", "/", "e", "m", "p", "l", "o", "y", "e", "e", "s">>
Path_abs == <<"h", "t", "t", "p", "s", ":", "/", "/", "x", "/", "y">>
Url_base == <<"h", "t", "t", "p", "s", ":", "/", "/", "a", "p", "i", "/">>
Tenant_12 == <<"1", "2">>

\* Token responses.
AuthConnError ==
    [conn |-> "error", status |-> 0, decodes |-> "invalid",
     access_token |-> JMissing, expires_in |-> JMissing]

AuthHttp(status, decodes, token, expires_in) ==
    [conn |-> "response", status |-> status, decodes |-> decodes,
     access_token |-> token, expires_in |-> expires_in]

\* The authorization server was not asked.
AuthUnasked ==
    [conn |-> "unasked", status |-> 0, decodes |-> "invalid",
     access_token |-> JMissing, expires_in |-> JMissing]

GoodTokens == {JStr("tokA"), JStr("tokB")}

ExpiresIns ==
    {JInt(60), JInt(61), JMissing, JStr("3600"), JBool(TRUE)}

AuthFailures ==
    {AuthConnError,
     AuthHttp(401, "object", JMissing, JMissing),
     AuthHttp(500, "invalid", JMissing, JMissing),
     AuthHttp(200, "invalid", JMissing, JMissing),
     AuthHttp(200, "other", JMissing, JMissing),
     AuthHttp(200, "object", JMissing, JInt(3600)),
     AuthHttp(200, "object", JNull, JInt(3600)),
     AuthHttp(200, "object", JStr(""), JInt(3600))}

AuthSuccesses ==
    {AuthHttp(200, "object", tok, e) : tok \in GoodTokens, e \in ExpiresIns}

AuthResponses == AuthFailures \cup AuthSuccesses

\* Seconds that pass between the guard's reading of the clock and the
\* computation of the expiry, while the token exchange is in flight.
Latencies == {0, 1}

\* Resource responses.
RespConnError ==
    [conn |-> "error", status |-> 0, headers |-> EmptyDict,
     raw |-> "timeout", json |-> JsonInvalid]

RespHttp(status, headers, raw, json) ==
    [conn |-> "response", status |-> status, headers |-> headers,
     raw |-> raw, json |-> json]

\* The resource server was not asked.
RespUnasked ==
    [conn |-> "unasked", status |-> 0, headers |-> EmptyDict,
     raw |-> "", json |-> JsonInvalid]

OneHeader(name, value) == [k \in {name} |-> value]

ResponseHeaders ==
    {EmptyDict} \cup
    {OneHeader(Str_Content_Type, ct) :
        ct \in {Ct_json_charset, Ct_GIF, Ct_octet, Ct_text, Ct_hal}}
    \cup {OneHeader(Hdr_content_type, Str_application_json)}

Bodies == {[raw |-> "{a:1}", json |-> "obj-a"], [raw |-> "<html>", json |-> JsonInvalid]}

Statuses == {200, 399, 400, 404}

AllResponses ==
    {RespConnError} \cup
    {RespHttp(st, h, b.raw, b.json) : st \in Statuses, h \in ResponseHeaders, b \in Bodies}

\* The few resource responses the credential lifecycle is exercised with.
CoreResponses ==
    {RespConnError,
     RespHttp(200, OneHeader(Str_Content_Type, Str_application_json), "{a:1}", "obj-a"),
     RespHttp(401, EmptyDict, "<html>", JsonInvalid)}

\* Caller-supplied header maps; the empty one also stands for headers=None.
CallerHeaders ==
    {EmptyDict,
     [k \in {Str_authorization, Hdr_X_Trace} |->
        IF k = Str_authorization THEN Plain("evil") ELSE Plain("abc")],
     [k \in {Hdr_AUTHORIZATION, Hdr_St_App_Key, Hdr_Accept} |->
        IF k = Hdr_AUTHORIZATION THEN <<"Bearer ", "stolen">>
        ELSE IF k = Hdr_St_App_Key THEN Plain("other-key") ELSE Plain("*/*")],
     [k \in {Str_Authorization, Str_ST_App_Key} |-> Plain("evil")]}

Paths == {Path_jobs, Path_tenant_employees, Path_abs}

---------------------------------------------------------------------------
\* The state machine: one client, one caller, a clock.

\* The client object as the operators above read it.
Self ==
    [access_token |-> access_token, token_expiry |-> token_expiry,
     app_key |-> app_key, tenant |-> tenant, base_url |-> base_url]

NoLast ==
    [op |-> <<>>, before |-> Self, t0 |-> 0, path |-> <<>>, headers |-> EmptyDict,
     auth |-> AuthUnasked, resp |-> RespUnasked, prev |-> NoRaise,
     did |-> [self |-> Self, exchanges |-> 0, calls |-> 0, raised |-> NoRaise,
              err |-> NoError, ret |-> None, tRet |-> 0, sent |-> NotSent,
              payload |-> NoPayload]]

\* The clock when the client is constructed.
StartClocks == {1000}

Str_integration == <<"i", "n", "t", "e", "g", "r", "a", "t", "i", "o", "n">>
Str_production == <<"p", "r", "o", "d", "u", "c", "t", "i", "o", "n">>

\* The fields __init__ sets besides the ones above, for a client made with
\* the default environment and no URL override.
DefaultConfig ==
    [client_id |-> "id-1", client_secret |-> "secret-1", app_guid |-> "",
     environment |-> Str_integration, auth_url |-> "https://auth-integration.servicetitan.io/connect/token",
     local_timezone |-> "Australia/Sydney"]

\* The instance has no attribute _user_zone.
NoZone == "unset"

\* No operation other than a verb has been called.
NoOutcome == [op |-> "none"]

\* The host calls the client from one thread only.
NoThreads == <<>>

\* The rest of a constructed client and of the caller's view.
InitRest ==
    /\ config = DefaultConfig
    /\ user_zone = NoZone
    /\ threads = NoThreads
    /\ outcome = NoOutcome

\* __init__ leaves the token cache empty.
Init ==
    /\ access_token = None
    /\ token_expiry = 0
    /\ app_key = "app-key-1"
    /\ tenant = <<>>
    /\ base_url = Url_base
    /\ now \in StartClocks
    /\ nreq = 0
    /\ last = NoLast
    /\ InitRest

\* The caller's view of one call: the inputs, and what Request made of them.
\* An answer that was never asked for is not recorded.  prev is what the
\* verb call before this one raised.
Observed(method, path, headers, env, out) ==
    [op |-> method, before |-> Self, t0 |-> env.t0, path |-> path,
     headers |-> headers, prev |-> last.did.raised,
     auth |-> IF out.exchanges > 0 THEN env.auth ELSE AuthUnasked,
     resp |-> IF out.calls > 0 THEN env.resp ELSE RespUnasked,
     did |-> out]

\* The state after a call that did r, observed as obs.
Returned(r, obs) ==
    /\ access_token' = r.self.access_token
    /\ token_expiry' = r.self.token_expiry
    /\ app_key' = r.self.app_key
    /\ tenant' = r.self.tenant
    /\ base_url' = r.self.base_url
    /\ now' = r.tRet
    /\ nreq' = nreq + 1
    /\ last' = obs
    /\ outcome' = NoOutcome
    /\ UNCHANGED <<config, user_zone, threads>>

\* The module copies a caller may have imported.
Package == "servicetitan_api_client/client.py"
RootCopy == "client.py"

\* The verb named method of the given module copy, called.
Invoke(copy, method, self, path, headers, env) ==
    IF copy = RootCopy
    THEN CASE method = Str_GET -> RootCopyGet(self, path, headers, env)
           [] method = Str_POST -> RootCopyPost(self, path, headers, env)
    ELSE CASE method = Str_GET -> get(self, path, headers, env)
           [] method = Str_POST -> post(self, path, headers, env)
           [] method = Str_PUT -> put(self, path, headers, env)
           [] method = Str_PATCH -> patch(self, path, headers, env)
           [] method = Str_DELETE -> delete(self, path, headers, env)

\* One call of a verb with inputs from the given sets.  d is the time the
\* token exchange takes, should there be one.
Call(copy, method, paths, headerMaps, auths, latencies, resps) ==
    /\ nreq < MaxRequests
    /\ \E path \in paths, headers \in headerMaps, auth \in auths,
          d \in latencies, resp \in resps :
          \E env \in {[t0 |-> now, auth |-> auth, t1 |-> now + d, resp |-> resp]} :
          \E r \in {Invoke(copy, method, Self, path, headers, env)} :
              Returned(r, Observed(method, path, headers, env, r))

\* Time passes between calls: up to just before and exactly at the instant
\* from which the guard refreshes, and to the expiry itself.
Tick ==
    /\ nreq < MaxRequests
    /\ \E t \in {token_expiry - SafetyMargin - 1, token_expiry - SafetyMargin,
                 token_expiry} :
          /\ t > now
          /\ now' = t
    /\ UNCHANGED <<access_token, token_expiry, app_key, tenant, base_url, config,
                   user_zone, nreq, last, outcome, threads>>

\* The credential lifecycle: get with every token response.
CallGet == Call(Package, Str_GET, {Path_jobs}, {EmptyDict}, AuthResponses, Latencies, CoreResponses)

Next ==
    \/ Tick
    \/ CallGet

Spec == Init /\ [][Next]_vars

---------------------------------------------------------------------------
\* The five verbs, with fewer token responses.

VerbAuths ==
    {AuthConnError,
     AuthHttp(401, "object", JMissing, JMissing),
     AuthHttp(200, "invalid", JMissing, JMissing),
     AuthHttp(200, "object", JStr("tokA"), JInt(61)),
     AuthHttp(200, "object", JStr("tokB"), JMissing)}

VerbGet == Call(Package, Str_GET, {Path_jobs}, {EmptyDict}, VerbAuths, Latencies, CoreResponses)
VerbPost == Call(Package, Str_POST, {Path_jobs}, {EmptyDict}, VerbAuths, Latencies, CoreResponses)
VerbPut == Call(Package, Str_PUT, {Path_jobs}, {EmptyDict}, VerbAuths, Latencies, CoreResponses)
VerbPatch == Call(Package, Str_PATCH, {Path_jobs}, {EmptyDict}, VerbAuths, Latencies, CoreResponses)
VerbDelete == Call(Package, Str_DELETE, {Path_jobs}, {EmptyDict}, VerbAuths, Latencies, CoreResponses)

NextVerbs ==
    \/ Tick
    \/ VerbGet
    \/ VerbPost
    \/ VerbPut
    \/ VerbPatch
    \/ VerbDelete

SpecVerbs == Init /\ [][NextVerbs]_vars

---------------------------------------------------------------------------
\* The dispatcher: the caller's headers and the classification of the
\* response, with a token exchange that succeeds.

DispatchAuths ==
    {AuthHttp(200, "object", JStr("tokA"), JInt(61)),
     AuthHttp(200, "object", JStr("tokB"), JMissing)}

InitDispatch ==
    /\ access_token = None
    /\ token_expiry = 0
    /\ app_key = "app-key-1"
    /\ tenant \in {<<>>, Tenant_12}
    /\ base_url = Url_base
    /\ now \in StartClocks
    /\ nreq = 0
    /\ last = NoLast
    /\ InitRest

\* The resource answers 200 with a JSON object.
JsonResponses ==
    {RespHttp(200, OneHeader(Str_Content_Type, Str_application_json), "{a:1}", "obj-a")}

\* A get with each of the caller's header maps.
SendHeaders ==
    Call(Package, Str_GET, {Path_abs}, CallerHeaders, DispatchAuths, {0}, JsonResponses)

\* A post answered by each of the resource responses.
Classify ==
    Call(Package, Str_POST, {Path_tenant_employees}, {EmptyDict},
         DispatchAuths, {0}, AllResponses)

NextDispatch ==
    \/ Tick
    \/ SendHeaders
    \/ Classify

SpecDispatch == InitDispatch /\ [][NextDispatch]_vars

---------------------------------------------------------------------------
\* The dispatcher of the second copy, src/client.py, with the same inputs.

RootCopySendHeaders ==
    Call(RootCopy, Str_GET, {Path_abs}, CallerHeaders, DispatchAuths, {0}, JsonResponses)

RootCopyClassify ==
    Call(RootCopy, Str_POST, {Path_tenant_employees}, {EmptyDict},
         DispatchAuths, {0}, AllResponses)

NextRootCopy ==
    \/ Tick
    \/ RootCopySendHeaders
    \/ RootCopyClassify

SpecRootCopy == InitDispatch /\ [][NextRootCopy]_vars

---------------------------------------------------------------------------
\* The paginated fetch.

JsonHeaders == OneHeader(Str_Content_Type, Str_application_json)

\* A 200 that declares JSON and carries the named body.
PageOf(j) == RespHttp(200, JsonHeaders, j, j)

AuthLong == AuthHttp(200, "object", JStr("tokB"), JMissing)
AuthShort == AuthHttp(200, "object", JStr("tokA"), JInt(60))
AuthDenied == AuthHttp(401, "object", JMissing, JMissing)
AuthGarbled == AuthHttp(200, "invalid", JMissing, JMissing)

PageEnv(auth, d, resp) == [auth |-> auth, d |-> d, resp |-> resp]

\* Pages after which get_all asks for the next one, if the request got a
\* token.  A token issued for 60 seconds is inside the margin one second
\* later, so the next page asks for a token again.
MorePages ==
    {PageEnv(AuthLong, 1, PageOf("page-a-more")),
     PageEnv(AuthShort, 1, PageOf("page-b-more")),
     PageEnv(AuthShort, 1, PageOf("page-nodata-more")),
     PageEnv(AuthLong, 1, PageOf("page-empty-more")),
     PageEnv(AuthDenied, 1, PageOf("page-a-more"))}

\* Pages after which get_all stops.
LastPages ==
    {PageEnv(AuthLong, 1, PageOf("page-c-last")),
     PageEnv(AuthShort, 1, PageOf("page-d-end")),
     PageEnv(AuthLong, 1, PageOf("page-null-last")),
     PageEnv(AuthLong, 1, PageOf("page-number")),
     PageEnv(AuthLong, 1, PageOf("array")),
     PageEnv(AuthLong, 1, RespHttp(200, OneHeader(Str_Content_Type, Ct_text),
                                   "page-a-more", "page-a-more")),
     PageEnv(AuthLong, 1, RespHttp(404, JsonHeaders, "obj-a", "obj-a")),
     PageEnv(AuthShort, 1, RespConnError),
     PageEnv(AuthDenied, 1, PageOf("page-c-last")),
     PageEnv(AuthGarbled, 1, PageOf("page-c-last"))}

\* What the servers hold: up to MaxPages pages, the last of which ends the
\* fetch.
PageWorlds ==
    UNION {{w \o <<e>> : w \in [1..n -> MorePages], e \in LastPages} : n \in 0..(MaxPages - 1)}

\* The credentials a client may hold when get_all is called: none, one that
\* is valid for long, one that is inside the margin.
CachedTokens ==
    {[access_token |-> None, token_expiry |-> 0],
     [access_token |-> JStr("tokC"), token_expiry |-> 1900],
     [access_token |-> JStr("tokC"), token_expiry |-> 1060]}

InitFetch ==
    /\ \E c \in CachedTokens :
          /\ access_token = c.access_token
          /\ token_expiry = c.token_expiry
    /\ app_key = "app-key-1"
    /\ tenant = <<>>
    /\ base_url = Url_base
    /\ now \in StartClocks
    /\ nreq = 0
    /\ last = NoLast
    /\ InitRest

\* The state after a call of get_all or get_all_id_filter that did r.
Fetched(r, obs) ==
    /\ access_token' = r.self.access_token
    /\ token_expiry' = r.self.token_expiry
    /\ app_key' = r.self.app_key
    /\ tenant' = r.self.tenant
    /\ base_url' = r.self.base_url
    /\ now' = r.t
    /\ nreq' = nreq + 1
    /\ outcome' = obs
    /\ UNCHANGED <<config, user_zone, last, threads>>

\* One call of get_all against one of the given worlds.  Of the world only
\* the pages asked for are recorded.
FetchAll(worlds) ==
    /\ nreq < MaxFetches
    /\ \E world \in worlds :
          \E r \in {GetAll(Self, Path_jobs, EmptyDict, world, now)} :
              Fetched(r, [op |-> "get_all", before |-> Self, t0 |-> now,
                          world |-> SubSeq(world, 1, Len(r.asked)), did |-> r])

CallGetAll == FetchAll(PageWorlds)

NextPaging ==
    \/ Tick
    \/ CallGetAll

SpecPaging == InitFetch /\ [][NextPaging]_vars

---------------------------------------------------------------------------
\* Properties.  last.before and last.t0 are the client and the clock when
\* the call began; last.auth and last.resp are the answers the call received;
\* last.did is what the call did.

\* A call has been made.
Called == last.op # <<>>

\* The guard returned a token to _request.
TokenReturned == Called /\ last.did.ret # None

\* The call asked the authorization server for a token.
Exchanged == Called /\ last.did.exchanges > 0

\* The lifetime a token response declares, as the refresher reads it.
DeclaredLifetime(auth) ==
    IF auth.expires_in.kind \in {"int", "bool"} THEN auth.expires_in.num ELSE 900

\* C1 as stated: whatever lifetime the token response declares, the token
\* the guard returns is at least the safety margin away from its expiry at
\* the moment of return, and so is the token of every request sent.
C1_MarginAtReturn ==
    /\ TokenReturned => last.did.tRet < token_expiry - 60
    /\ (Called /\ last.did.calls > 0) => last.did.sent.sentAt < token_expiry - 60

\* C1 amended: the token the guard returns is more than the safety margin
\* away from its expiry exactly when it was reused from the cache or was
\* issued with a declared lifetime of more than 60 seconds; a token issued
\* with a shorter lifetime is returned, and the request sent, all the same.
C1_MarginUnlessShortLived ==
    /\ TokenReturned =>
          ((last.did.tRet < token_expiry - 60)
              <=> (last.did.exchanges = 0 \/ DeclaredLifetime(last.auth) > 60))
    /\ (Called /\ last.did.calls > 0) =>
          /\ last.did.sent.sentAt = last.did.tRet
          /\ TokenReturned

\* C1 witness: a request was sent with a token just issued for 61 seconds,
\* after an earlier request.
C1_Witness ==
    /\ nreq = 2
    /\ Exchanged
    /\ last.did.calls = 1
    /\ last.auth.expires_in = JInt(61)
    /\ last.did.tRet < token_expiry - 60

\* C2: the first request of a fresh client performs exactly one token
\* exchange, and a later request made while now < expiry - 60 performs none
\* and uses the cached token, which stays as it was.
C2_RefreshLaziness ==
    /\ (Called /\ nreq = 1) => last.did.exchanges = 1
    /\ (Called /\ nreq > 1 /\ last.t0 < last.before.token_expiry - 60) =>
          /\ last.did.exchanges = 0
          /\ last.did.ret = last.before.access_token
          /\ access_token = last.before.access_token
          /\ token_expiry = last.before.token_expiry
          /\ last.did.calls = 1
          /\ last.did.sent.headers[Str_Authorization] = Bearer(last.before.access_token)

\* C2 witness: a second request inside the validity window reused the token.
C2_Witness ==
    /\ nreq = 2
    /\ last.t0 < last.before.token_expiry - 60
    /\ last.did.exchanges = 0
    /\ last.did.calls = 1

\* C3: a request made when the clock has reached expiry - 60 performs
\* exactly one token exchange, and the resource call it then makes carries
\* the token of that exchange.
C3_RefreshOnExpiry ==
    (Called /\ last.t0 >= last.before.token_expiry - 60) =>
        /\ last.did.exchanges = 1
        /\ last.did.calls = 1 =>
              /\ last.did.sent.headers[Str_Authorization] = Bearer(last.auth.access_token)
              /\ access_token = last.auth.access_token

\* C3 witness: with tokA cached and the clock exactly at expiry - 60, the
\* request exchanged once and was sent with tokB.
C3_Witness ==
    /\ Called
    /\ last.before.access_token = JStr("tokA")
    /\ last.t0 = last.before.token_expiry - 60
    /\ last.did.exchanges = 1
    /\ last.did.calls = 1
    /\ last.auth.access_token = JStr("tokB")

\* C4: when the token exchange fails, for whichever reason, the cached
\* token and expiry are what they were before the call and the guard returns
\* no token.
C4_RefreshAtomicOnFailure ==
    (Exchanged /\ last.auth \in AuthFailures) =>
        /\ access_token = last.before.access_token
        /\ token_expiry = last.before.token_expiry
        /\ last.did.ret = None
        /\ last.did.raised # NoRaise

\* C4 witness: a stale token was cached when the exchange failed on a body
\* without access_token.
C4_Witness ==
    /\ Exchanged
    /\ Truthy(last.before.access_token)
    /\ last.auth = AuthHttp(200, "object", JMissing, JInt(3600))
    /\ access_token = last.before.access_token

\* C5 as stated: every failed token exchange surfaces as
\* ServiceTitanAuthError.
C5_AuthErrorOnly ==
    (Exchanged /\ last.auth \in AuthFailures) =>
        last.did.raised = "ServiceTitanAuthError"

\* C7 as stated: a failed token exchange sends no resource request and
\* raises ServiceTitanAuthError; a failed resource call raises
\* ServiceTitanAPIError.
C7_AuthBeforeTransport ==
    /\ (Exchanged /\ last.auth \in AuthFailures) =>
          /\ last.did.calls = 0
          /\ last.did.raised = "ServiceTitanAuthError"
    /\ (Called /\ last.did.calls > 0
          /\ (last.resp.conn = "error" \/ last.resp.status >= 400)) =>
          last.did.raised = "ServiceTitanAPIError"

\* C10: one call of a verb performs at most one token exchange and at most
\* one resource call, whatever the outcome.
C10_NoInternalRetry ==
    Called =>
        /\ last.did.exchanges <= 1
        /\ last.did.calls <= 1
        /\ last.did.exchanges = 0 => last.auth = AuthUnasked
        /\ last.did.calls = 0 => last.resp = RespUnasked

\* C10 witness: a delete whose token exchange succeeded and whose resource
\* call was answered 401 ended after one call of each.
C10_Witness ==
    /\ last.op = Str_DELETE
    /\ last.did.exchanges = 1
    /\ last.did.calls = 1
    /\ last.resp.status = 401
    /\ last.did.raised = "ServiceTitanAPIError"

\* The caller's header names that name one of the two headers the client
\* sets itself, in any letter case.
Reserved(headers) ==
    {k \in DOMAIN headers : Lower(k) \in {Str_authorization, Str_st_app_key}}

\* C6: every request sent carries Authorization = "Bearer " + the token the
\* guard returned and ST-App-Key = the configured key; a caller's header
\* named authorization or st-app-key in any letter case is dropped, and the
\* caller's other headers are sent unchanged.
C6_HeaderPrecedence ==
    (Called /\ last.did.calls > 0) =>
        LET sent == last.did.sent.headers
        IN  /\ sent[Str_Authorization] = Bearer(last.did.ret)
            /\ last.did.ret = access_token
            /\ sent[Str_ST_App_Key] = Plain(app_key)
            /\ DOMAIN sent = {Str_Authorization, Str_ST_App_Key}
                                \cup (DOMAIN last.headers \ Reserved(last.headers))
            /\ \A k \in DOMAIN last.headers \ Reserved(last.headers) :
                  sent[k] = last.headers[k]

\* C6 witness: the caller passed AUTHORIZATION, St-App-Key and Accept; the
\* request went out with the client's two headers and the caller's Accept.
C6_Witness ==
    /\ Called
    /\ last.did.calls = 1
    /\ DOMAIN last.headers = {Hdr_AUTHORIZATION, Hdr_St_App_Key, Hdr_Accept}
    /\ DOMAIN last.did.sent.headers = {Str_Authorization, Str_ST_App_Key, Hdr_Accept}
    /\ last.did.sent.headers[Str_Authorization] = <<"Bearer ", "tokA">>

DeclaresJson(resp) ==
    resp.headers \in {OneHeader(Str_Content_Type, Str_application_json),
                      OneHeader(Str_Content_Type, Ct_json_charset),
                      OneHeader(Hdr_content_type, Str_application_json)}

DeclaresBinary(resp) ==
    resp.headers \in {OneHeader(Str_Content_Type, Ct_GIF),
                      OneHeader(Str_Content_Type, Ct_octet)}

\* C9: for status < 400, a declared JSON content type returns the decoded
\* value, or the raw text when decoding fails; an image/ or
\* application/octet-stream type returns the raw bytes; any other type, and
\* an absent one, returns the text even when the body is valid JSON.
C9_ContentClassification ==
    (Called /\ last.resp.conn = "response" /\ last.resp.status < 400) =>
        /\ last.did.raised = NoRaise
        /\ last.did.payload =
              IF DeclaresJson(last.resp)
              THEN IF last.resp.json # JsonInvalid
                   THEN <<"json", last.resp.json>>
                   ELSE <<"text", last.resp.raw>>
              ELSE IF DeclaresBinary(last.resp)
              THEN <<"bytes", last.resp.raw>>
              ELSE <<"text", last.resp.raw>>

\* With the second copy a 200 answered as text/plain with a body that is
\* valid JSON came back decoded.
C9_RootCopyDecodedText ==
    /\ Called
    /\ last.resp.status = 200
    /\ last.resp.headers = OneHeader(Str_Content_Type, Ct_text)
    /\ last.resp.json = "obj-a"
    /\ last.did.payload = <<"json", "obj-a">>

---------------------------------------------------------------------------
\* Properties of the paginated fetch.  outcome.world[k] is what the servers
\* held for page k, outcome.did what get_all did.

\* get_all was the last operation called.
GotAll == outcome.op = "get_all"

RECURSIVE Concat(_)
Concat(seqs) == IF seqs = <<>> THEN <<>> ELSE Head(seqs) \o Concat(Tail(seqs))

\* The request of page k came back with a JSON object.
Received(k) ==
    /\ outcome.did.pages[k].raised = NoRaise
    /\ outcome.did.pages[k].payload[1] = "json"
    /\ Doc(outcome.world[k].resp.json).dict

\* The data array of the object page k came back with; empty when the
\* object has none.
PageData(k) ==
    LET data == Doc(outcome.world[k].resp.json).data
    IN  IF data.kind = "list" THEN data.items ELSE <<>>

\* Page k came back with an object that declares hasMore.
DeclaresMore(k) ==
    /\ Received(k)
    /\ Doc(outcome.world[k].resp.json).hasMore = JBool(TRUE)

\* C11: when the request of page k fails, with a ServiceTitanAPIError or
\* with the error of a failed token exchange, get_all raises nothing, asks
\* for no further page, sends nothing more, and returns the data of pages
\* 1..k-1 in order (nothing when k = 1).
C11_FetchTruncatesOnFailure ==
    GotAll =>
        \A k \in 1..Len(outcome.did.asked) :
            outcome.did.pages[k].raised # NoRaise =>
                /\ outcome.did.raised = NoRaise
                /\ k = Len(outcome.did.asked)
                /\ outcome.did.calls <= k
                /\ \A i \in 1..(k - 1) : Received(i)
                /\ outcome.did.output = Concat([i \in 1..(k - 1) |-> PageData(i)])

\* C11 witness: the first two pages came back, each with a token issued
\* for 60 seconds, the second without a data array; the token exchange of
\* page 3 was denied and get_all returned what the first two pages held.
C11_Witness ==
    /\ GotAll
    /\ Len(outcome.did.asked) = 3
    /\ outcome.did.pages[3].raised = "ServiceTitanAuthError"
    /\ outcome.did.raised = NoRaise
    /\ outcome.did.exchanges = 3
    /\ outcome.did.calls = 2
    /\ outcome.did.output = <<"b1">>

\* C12: a get_all that returns asked for pages 1, 2, ..., n in this order;
\* every page before the last came back as an object declaring hasMore and
\* the last did not; the result is the data of the pages received, in page
\* order, the last page's included.
C12_FetchAccumulates ==
    (GotAll /\ outcome.did.raised = NoRaise) =>
        LET n == Len(outcome.did.asked)
        IN  /\ n >= 1
            /\ outcome.did.asked = [i \in 1..n |-> i]
            /\ \A i \in 1..n : DeclaresMore(i) <=> i < n
            /\ outcome.did.output =
                  Concat([i \in 1..n |-> IF Received(i) THEN PageData(i) ELSE <<>>])

\* C12 witness: three pages, the third declaring hasMore false.
C12_Witness ==
    /\ GotAll
    /\ outcome.did.asked = <<1, 2, 3>>
    /\ outcome.world[3].resp.json = "page-c-last"
    /\ outcome.did.output = <<"a1", "a2", "b1", "c1", "c2">>

---------------------------------------------------------------------------
\* The batched identifier filter.

\* The longest identifier list.
MaxIds == 120

DigitChars == <<"0", "1", "2", "3", "4", "5", "6", "7", "8", "9">>

\* The decimal text of n.
RECURSIVE Decimal(_)
Decimal(n) ==
    IF n < 10 THEN <<DigitChars[n + 1]>>
    ELSE Decimal(n \div 10) \o <<DigitChars[(n % 10) + 1]>>

\* The identifier list "1", "2", ..., "n".
Ids(n) == [i \in 1..n |-> Decimal(i)]

\* List lengths around the multiples of the chunk size.
IdCounts ==
    {n \in 0..MaxIds : n = 1 \/ n = MaxIds \/ n % ChunkSize \in {0, 1, ChunkSize - 1}}

FilterNames == {"ids", "jobIds"}

\* The caller's other query parameters.
CallerParams == {EmptyDict, [k \in {"active"} |-> <<"t", "r", "u", "e">>]}

\* What the servers may answer to one request of a chunk.
ChunkEnvs ==
    {PageEnv(AuthLong, 1, PageOf("page-a-more")),
     PageEnv(AuthShort, 1, PageOf("page-d-end")),
     PageEnv(AuthShort, 1, PageOf("page-nodata-more")),
     PageEnv(AuthLong, 1, PageOf("page-null-last")),
     PageEnv(AuthLong, 1, RespHttp(200, OneHeader(Str_Content_Type, Ct_text),
                                   "page-a-more", "page-a-more")),
     PageEnv(AuthLong, 1, RespHttp(404, JsonHeaders, "obj-a", "obj-a")),
     PageEnv(AuthDenied, 1, PageOf("page-c-last"))}

\* One call of get_all_id_filter with inputs from the given sets.  The
\* servers hold an answer for one request more than the list has full
\* chunks; of these only the ones asked for are recorded.
FetchBatch(counts, names, paramMaps, envs) ==
    /\ nreq < MaxFetches
    /\ \E n \in counts, name \in names, params \in paramMaps :
          \E world \in [1..((n \div ChunkSize) + 1) -> envs] :
              \E r \in {GetAllIdFilter(Self, Path_jobs, Ids(n), name, params,
                                       EmptyDict, world, now)} :
                  Fetched(r, [op |-> "get_all_id_filter", before |-> Self,
                              t0 |-> now, n |-> n, name |-> name,
                              params |-> params,
                              caller |-> CallerParamsAfter(params, r.params),
                              world |-> SubSeq(world, 1, Len(r.sent)),
                              did |-> r])

CallGetAllIdFilter == FetchBatch(IdCounts, FilterNames, CallerParams, ChunkEnvs)

NextBatch ==
    \/ Tick
    \/ CallGetAllIdFilter

SpecBatch == InitFetch /\ [][NextBatch]_vars

---------------------------------------------------------------------------
\* Properties of the batched identifier filter.  outcome.n is the length of
\* the identifier list, outcome.name the value of id_filter_name,
\* outcome.params the caller's params, outcome.did.sent[k] the params of the
\* k-th request.

\* get_all_id_filter was the last operation called.
GotBatch == outcome.op = "get_all_id_filter"

\* text.split(","), for a text that is not empty.
RECURSIVE SplitCommas(_)
SplitCommas(text) ==
    IF \A i \in 1..Len(text) : text[i] # ","
    THEN <<text>>
    ELSE LET i == CHOOSE i \in 1..Len(text) :
                     text[i] = "," /\ \A j \in 1..(i - 1) : text[j] # ","
         IN  <<SubSeq(text, 1, i - 1)>> \o SplitCommas(SubSeq(text, i + 1, Len(text)))

\* The parameters of request k that the caller did not pass.
FilterParams(k) == DOMAIN outcome.did.sent[k] \ DOMAIN outcome.params

\* ceil(n / 50)
ChunksOf(n) == (n + 49) \div 50

\* C13: for a list of n >= 1 identifiers get_all_id_filter issues at most
\* ceil(n/50) requests, and exactly so many when it returns; request k
\* carries, comma-joined in a parameter, the identifiers at positions
\* 50(k-1)+1 .. 50k of the list in their order: 50 identifiers in every
\* request but the last, the remaining 1..50 in the last; the result is the
\* responses' data in request order.
C13_BatchChunking ==
    (GotBatch /\ outcome.n >= 1) =>
        LET n == outcome.n
            m == Len(outcome.did.sent)
        IN  /\ 1 <= m /\ m <= ChunksOf(n)
            /\ outcome.did.raised = NoRaise => m = ChunksOf(n)
            /\ \A k \in 1..m :
                  \E p \in FilterParams(k) :
                      LET chunk == SplitCommas(outcome.did.sent[k][p])
                      IN  /\ Len(chunk) = IF k < ChunksOf(n) THEN 50
                                          ELSE n - 50 * (ChunksOf(n) - 1)
                          /\ Len(chunk) \in 1..50
                          /\ \A j \in 1..Len(chunk) :
                                chunk[j] = Decimal(50 * (k - 1) + j)
            /\ outcome.did.raised = NoRaise =>
                  outcome.did.ret = DataList(Concat([k \in 1..m |-> PageData(k)]))

\* C13 witness: 120 identifiers went out in three requests and the three
\* answers came back joined.
C13_Witness ==
    /\ GotBatch
    /\ outcome.n = 120
    /\ Len(outcome.did.sent) = 3
    /\ outcome.did.raised = NoRaise
    /\ outcome.did.ret = DataList(<<"a1", "a2", "d1", "a1", "a2">>)

\* C14 as stated: every request carries the parameter named id_filter_name,
\* set to the comma-joined identifiers of its chunk, and besides the
\* caller's own parameters no other.
C14_FilterParameterName ==
    GotBatch =>
        \A k \in 1..Len(outcome.did.sent) :
            /\ FilterParams(k) = {outcome.name}
            /\ outcome.did.sent[k][outcome.name] =
                  Join(Slice(Ids(outcome.n), 50 * (k - 1), 50 * k))

\* Fifty identifiers were asked for under the name jobIds and went out
\* under the name ids.
C14_SentUnderIds ==
    /\ GotBatch
    /\ outcome.n = 50
    /\ outcome.name = "jobIds"
    /\ Len(outcome.did.sent) = 1
    /\ FilterParams(1) = {"ids"}

\* C26: for a list of 0 to 49 identifiers get_all_id_filter calls self.get
\* exactly once, with the identifiers comma-joined under the name
\* id_filter_name; for the empty list the request goes out all the same,
\* its filter parameter the empty text; when the operation returns, it
\* returns the data of that response, the empty list when the response has
\* none.
C26_ShortListOneRequest ==
    (GotBatch /\ outcome.n < ChunkSize) =>
        /\ Len(outcome.did.sent) = 1
        /\ outcome.did.calls <= 1
        /\ outcome.did.pages[1].raised = NoRaise => outcome.did.calls = 1
        /\ outcome.name \in DOMAIN outcome.did.sent[1]
        /\ IF outcome.n = 0
           THEN outcome.did.sent[1][outcome.name] = <<>>
           ELSE SplitCommas(outcome.did.sent[1][outcome.name]) = Ids(outcome.n)
        /\ outcome.did.raised = NoRaise =>
              /\ Received(1)
              /\ outcome.did.ret = DataList(PageData(1))

\* C26 witness: an empty list went out as one request with an empty filter
\* parameter, and the data of its answer came back.
C26_Witness ==
    /\ GotBatch
    /\ outcome.n = 0
    /\ outcome.did.calls = 1
    /\ outcome.did.sent[1][outcome.name] = <<>>
    /\ outcome.did.raised = NoRaise
    /\ outcome.did.ret = DataList(<<"a1", "a2">>)

\* A short list whose answer had no data array gave the empty list.
ShortListWithoutData ==
    /\ GotBatch
    /\ outcome.n = 1
    /\ outcome.did.raised = NoRaise
    /\ Doc(outcome.world[1].resp.json).data = DataMissing
    /\ outcome.did.ret = DataList(<<>>)

---------------------------------------------------------------------------
\* Every operation that sends requests, side by side: a fetch, then verbs.

SurfaceAuths == {AuthLong, AuthDenied, AuthGarbled}

SurfaceGet == Call(Package, Str_GET, {Path_jobs}, {EmptyDict}, SurfaceAuths, {1}, CoreResponses)
SurfacePost == Call(Package, Str_POST, {Path_jobs}, {EmptyDict}, SurfaceAuths, {1}, CoreResponses)
SurfacePut == Call(Package, Str_PUT, {Path_jobs}, {EmptyDict}, SurfaceAuths, {1}, CoreResponses)
SurfacePatch == Call(Package, Str_PATCH, {Path_jobs}, {EmptyDict}, SurfaceAuths, {1}, CoreResponses)
SurfaceDelete == Call(Package, Str_DELETE, {Path_jobs}, {EmptyDict}, SurfaceAuths, {1}, CoreResponses)

SurfaceEnvs ==
    {PageEnv(AuthShort, 1, PageOf("page-b-more")),
     PageEnv(AuthShort, 1, PageOf("page-d-end")),
     PageEnv(AuthLong, 1, RespHttp(404, JsonHeaders, "obj-a", "obj-a")),
     PageEnv(AuthShort, 1, RespConnError),
     PageEnv(AuthDenied, 1, PageOf("page-c-last"))}

SurfaceWorlds ==
    {w \in PageWorlds : Len(w) <= 2 /\ \A k \in 1..Len(w) : w[k] \in SurfaceEnvs}

SurfaceGetAll == FetchAll(SurfaceWorlds)

SurfaceGetAllIdFilter == FetchBatch({1, ChunkSize, ChunkSize + 1}, {"ids"}, {EmptyDict}, SurfaceEnvs)

NextSurface ==
    \/ Tick
    \/ SurfaceGet
    \/ SurfacePost
    \/ SurfacePut
    \/ SurfacePatch
    \/ SurfaceDelete
    \/ SurfaceGetAll
    \/ SurfaceGetAllIdFilter

SpecSurface == InitFetch /\ [][NextSurface]_vars

---------------------------------------------------------------------------
\* Properties of the propagation of errors.

\* The two error kinds of the client.
ClientErrors == {"ServiceTitanAuthError", "ServiceTitanAPIError"}

\* C15: a verb raises ServiceTitanAuthError when its token exchange is
\* refused and ServiceTitanAPIError when its resource call fails;
\* get_all_id_filter raises the error of the request that failed, asks for
\* nothing more and returns nothing; get_all raises neither kind and returns
\* a list.
C15_Propagation ==
    /\ Called =>
          /\ (Exchanged /\ last.auth = AuthDenied) =>
                last.did.raised = "ServiceTitanAuthError"
          /\ (last.did.calls > 0
                /\ (last.resp.conn = "error" \/ last.resp.status >= 400)) =>
                last.did.raised = "ServiceTitanAPIError"
    /\ GotBatch =>
          \A k \in 1..Len(outcome.did.sent) :
              outcome.did.pages[k].raised \in ClientErrors =>
                  /\ outcome.did.raised = outcome.did.pages[k].raised
                  /\ k = Len(outcome.did.sent)
                  /\ outcome.did.ret = DataMissing
    /\ GotAll =>
          /\ outcome.did.raised \notin ClientErrors
          /\ \A k \in 1..Len(outcome.did.asked) :
                outcome.did.pages[k].raised \in ClientErrors =>
                    outcome.did.raised = NoRaise

\* C15 witness: of 51 identifiers the first 50 were answered and the
\* request of the last one came back 404; get_all_id_filter raised
\* ServiceTitanAPIError and returned nothing.
C15_Witness ==
    /\ GotBatch
    /\ outcome.n = 51
    /\ Len(outcome.did.sent) = 2
    /\ outcome.world[2].resp.status = 404
    /\ outcome.did.raised = "ServiceTitanAPIError"
    /\ outcome.did.ret = DataMissing

---------------------------------------------------------------------------
\* __init__.
\*
\* args holds the keyword arguments.  An argument left out or passed as None
\* and one passed as the empty text behave alike in every test of __init__
\* ("if not client_id", "auth_url or ...") and both are the empty text here.

\* _DEFAULT_AUTH_URLS and _DEFAULT_BASE_URLS
DefaultAuthUrl(environment) ==
    IF environment = Str_integration
    THEN "https://auth-integration.servicetitan.io/connect/token"
    ELSE "https://auth.servicetitan.io/connect/token"

Url_api_integration ==
    <<"h", "t", "t", "p", "s", ":", "/", "/", "a", "p", "i", "-", "i", "n", "t", "e", "g", "r", "a", "t", "i", "o", "n", ".", "s", "e", "r", "v", "i", "c", "e", "t", "i", "t", "a", "n", ".", "i", "o">>

Url_api_production ==
    <<"h", "t", "t", "p", "s", ":", "/", "/", "a", "p", "i", ".", "s", "e", "r", "v", "i", "c", "e", "t", "i", "t", "a", "n", ".", "i", "o">>

\* A slip of the table: one base URL for both environments.
DefaultBaseUrlIntegrationOnly(environment) == Url_api_integration

DefaultBaseUrl(environment) ==
    IF environment = Str_integration THEN Url_api_integration ELSE Url_api_production

\* No client: what the caller holds before a construction succeeds.
NoClient ==
    [access_token |-> None, token_expiry |-> 0, app_key |-> "", tenant |-> <<>>,
     base_url |-> <<>>]

NoConfig ==
    [client_id |-> "", client_secret |-> "", app_guid |-> "",
     environment |-> <<>>, auth_url |-> "", local_timezone |-> ""]

\* A slip of __init__: client_secret is not validated.
ConstructUnchecked(args) ==
    IF args.client_id = "" \/ args.app_key = ""
       \/ Lower(args.environment) \notin {Str_integration, Str_production}
    THEN [raised |-> "ValueError", self |-> NoClient, config |-> NoConfig, network |-> 0]
    ELSE [raised |-> NoRaise,
          self |-> [access_token |-> None, token_expiry |-> 0,
                    app_key |-> args.app_key, tenant |-> args.tenant,
                    base_url |-> IF args.base_url # <<>> THEN args.base_url
                                 ELSE DefaultBaseUrl(Lower(args.environment))],
          config |-> [client_id |-> args.client_id,
                      client_secret |-> args.client_secret,
                      app_guid |-> args.app_guid,
                      environment |-> Lower(args.environment),
                      auth_url |-> IF args.auth_url # "" THEN args.auth_url
                                   ELSE DefaultAuthUrl(Lower(args.environment)),
                      local_timezone |-> args.local_timezone],
          network |-> 0]

\* __init__: the exception raised, or the fields of the new client.  network
\* counts the calls of requests.post and requests.request it makes.
Construct(args) ==
    IF args.client_id = ""
    THEN [raised |-> "ValueError", self |-> NoClient, config |-> NoConfig, network |-> 0]
    ELSE IF args.client_secret = ""
    THEN [raised |-> "ValueError", self |-> NoClient, config |-> NoConfig, network |-> 0]
    ELSE IF args.app_key = ""
    THEN [raised |-> "ValueError", self |-> NoClient, config |-> NoConfig, network |-> 0]
    ELSE LET environment == Lower(args.environment)
         IN  IF environment \notin {Str_integration, Str_production}
             THEN [raised |-> "ValueError", self |-> NoClient, config |-> NoConfig,
                   network |-> 0]
             ELSE [raised |-> NoRaise,
                   self |-> [access_token |-> None, token_expiry |-> 0,
                             app_key |-> args.app_key, tenant |-> args.tenant,
                             base_url |-> IF args.base_url # <<>> THEN args.base_url
                                          ELSE DefaultBaseUrl(environment)],
                   config |-> [client_id |-> args.client_id,
                               client_secret |-> args.client_secret,
                               app_guid |-> args.app_guid,
                               environment |-> environment,
                               auth_url |-> IF args.auth_url # "" THEN args.auth_url
                                            ELSE DefaultAuthUrl(environment),
                               local_timezone |-> args.local_timezone],
                   network |-> 0]

Env_Production == <<"P", "r", "o", "d", "u", "c", "t", "i", "o", "n">>
Env_INTEGRATION == <<"I", "N", "T", "E", "G", "R", "A", "T", "I", "O", "N">>
Env_staging == <<"s", "t", "a", "g", "i", "n", "g">>

Environments ==
    {Str_integration, Str_production, Env_Production, Env_INTEGRATION, Env_staging, <<>>}

CtorArgs ==
    [client_id : {"", "id-1"}, client_secret : {"", "secret-1"},
     app_key : {"", "app-key-1"}, app_guid : {""}, tenant : {<<>>, Tenant_12},
     environment : Environments, auth_url : {"", "https://auth.example/token"},
     base_url : {<<>>, Url_base}, local_timezone : {"Australia/Sydney"}]

\* The caller holds no client yet.
InitConstruct ==
    /\ access_token = NoClient.access_token
    /\ token_expiry = NoClient.token_expiry
    /\ app_key = NoClient.app_key
    /\ tenant = NoClient.tenant
    /\ base_url = NoClient.base_url
    /\ config = NoConfig
    /\ user_zone = NoZone
    /\ threads = NoThreads
    /\ now \in StartClocks
    /\ nreq = 0
    /\ last = NoLast
    /\ outcome = NoOutcome

\* client = ServiceTitanClient(**args): when __init__ raises, the caller
\* holds what it held before.
New ==
    \E args \in CtorArgs :
        \E r \in {Construct(args)} :
            /\ outcome' = [op |-> "__init__", args |-> args, raised |-> r.raised,
                           network |-> r.network, before |-> [self |-> Self, config |-> config]]
            /\ IF r.raised = NoRaise
               THEN /\ access_token' = r.self.access_token
                    /\ token_expiry' = r.self.token_expiry
                    /\ app_key' = r.self.app_key
                    /\ tenant' = r.self.tenant
                    /\ base_url' = r.self.base_url
                    /\ config' = r.config
                    /\ user_zone' = NoZone
               ELSE UNCHANGED <<access_token, token_expiry, app_key, tenant, base_url,
                                config, user_zone>>
            /\ UNCHANGED <<now, nreq, last, threads>>

NextConstruct == New

SpecConstruct == InitConstruct /\ [][NextConstruct]_vars

\* __init__ was the last operation called.
Constructing == outcome.op = "__init__"

\* C16: __init__ raises ValueError exactly when client_id, client_secret or
\* app_key is empty or the environment, in whatever letter case, is neither
\* integration nor production; it then has made no network call and the
\* caller holds no new client; a client the caller holds has all three
\* values non-empty.
C16_ConstructionValidation ==
    /\ Constructing =>
          LET a == outcome.args
              rejected ==
                  \/ a.client_id = ""
                  \/ a.client_secret = ""
                  \/ a.app_key = ""
                  \/ a.environment \in {Env_staging, <<>>}
          IN  /\ rejected <=> outcome.raised = "ValueError"
              /\ ~rejected <=> outcome.raised = NoRaise
              /\ outcome.network = 0
              /\ rejected =>
                    /\ Self = outcome.before.self
                    /\ config = outcome.before.config
    /\ config # NoConfig =>
          /\ config.client_id # ""
          /\ config.client_secret # ""
          /\ app_key # ""

\* C16 witness: after a client was made, a construction with an empty
\* client_secret and one with environment staging were each refused.
C16_Witness ==
    /\ Constructing
    /\ outcome.raised = "ValueError"
    /\ outcome.args.client_id = "id-1"
    /\ outcome.args.app_key = "app-key-1"
    /\ \/ outcome.args.client_secret = "" /\ outcome.args.environment = Str_integration
       \/ outcome.args.client_secret = "secret-1" /\ outcome.args.environment = Env_staging
    /\ config # NoConfig

---------------------------------------------------------------------------
\* The token cache over the life of a client.

\* The call's token exchange succeeded.
Refreshed == Exchanged /\ last.auth \in AuthSuccesses

---------------------------------------------------------------------------
\* URL resolution and build_url.

Path_empty == <<>>
Path_slash == <<"/">>
Path_tenant_rel == <<"t", "e", "n", "a", "n", "t", "/", "e", "m", "p", "l", "o", "y", "e", "e", "s">>
Path_tenant_slashes == <<"/", "/", "t", "e", "n", "a", "n", "t", "/", "e", "m", "p", "l", "o", "y", "e", "e", "s">>
Path_http == <<"h", "t", "t", "p", ":", "/", "/", "x", "/", "y">>
Path_abs_tenant == <<"h", "t", "t", "p", "s", ":", "/", "/", "x", "/", "t", "e", "n", "a", "n", "t", "/", "y">>
Path_inner_tenant == <<"j", "p", "m", "/", "v", "2", "/", "t", "e", "n", "a", "n", "t", "/", "j", "o", "b", "s">>
Path_tenant_twice == <<"t", "e", "n", "a", "n", "t", "/", "a", "/", "t", "e", "n", "a", "n", "t", "/", "b">>
Path_tenant_bare == <<"t", "e", "n", "a", "n", "t">>
Path_tenants == <<"t", "e", "n", "a", "n", "t", "s", "/", "x">>
Path_Tenant == <<"T", "e", "n", "a", "n", "t", "/", "x">>
Path_httpx == <<"h", "t", "t", "p", "x", "/", "y">>
Path_HTTPS == <<"H", "T", "T", "P", "S", ":", "/", "/", "x", "/", "y">>

UrlPaths ==
    {Path_jobs, Path_tenant_employees, Path_abs, Path_empty, Path_slash,
     Path_tenant_rel, Path_tenant_slashes, Path_http, Path_abs_tenant,
     Path_inner_tenant, Path_tenant_twice, Path_tenant_bare, Path_tenants,
     Path_Tenant, Path_httpx, Path_HTTPS}

Tenant_123456 == <<"1", "2", "3", "4", "5", "6">>
Tenant_99 == <<"9", "9">>
Url_base_bare == <<"h", "t", "t", "p", "s", ":", "/", "/", "a", "p", "i">>

\* str.strip("/")
StripSlash(s) == LStripSlash(RStripSlash(s))

\* "/".join(segments)
RECURSIVE JoinSlash(_)
JoinSlash(segments) ==
    IF segments = <<>> THEN <<>>
    ELSE IF Len(segments) = 1 THEN segments[1]
    ELSE segments[1] \o <<"/">> \o JoinSlash(Tail(segments))

\* A resource_id: None, or a value by its str().
NoId == [given |-> FALSE, text |-> <<>>]
Id(text) == [given |-> TRUE, text |-> text]

Str_placeholder == <<"{", "t", "e", "n", "a", "n", "t", "}">>

\* build_url.  version is str(version); an absent modifier or tenant
\* argument and an empty one behave alike ("if modifier", "tenant or ...")
\* and both are the empty text.  The result is the exception raised or the
\* URL returned.
BuildUrl(self, folder, endpoint, version, resource_id, modifier, tenant_arg) ==
    IF folder = <<>> THEN [raised |-> "ValueError", ret |-> <<>>]
    ELSE IF endpoint = <<>> THEN [raised |-> "ValueError", ret |-> <<>>]
    ELSE
    LET tenant_id == IF tenant_arg # <<>> THEN tenant_arg
                     ELSE IF self.tenant # <<>> THEN self.tenant
                     ELSE Str_placeholder
        version_segment == IF StartsWith(Lower(version), <<"v">>)
                           THEN Lower(version)
                           ELSE <<"v">> \o version
        segments == <<StripSlash(folder), version_segment, <<"t", "e", "n", "a", "n", "t">>,
                      tenant_id, StripSlash(endpoint)>>
                    \o (IF resource_id.given THEN <<resource_id.text>> ELSE <<>>)
                    \o (IF modifier # <<>> THEN <<StripSlash(modifier)>> ELSE <<>>)
        path == JoinSlash(segments)
    IN  [raised |-> NoRaise, ret |-> PrepareUrl(self, path)]

Folder_jpm == <<"j", "p", "m">>
Folder_jpm_slashes == <<"/", "j", "p", "m", "/">>
Folder_tenant == <<"t", "e", "n", "a", "n", "t">>
Folder_url == <<"h", "t", "t", "p", "s", ":", "/", "/", "x">>
Endpoint_jobs == <<"j", "o", "b", "s">>
Endpoint_jobs_slashes == <<"/", "j", "o", "b", "s", "/">>
Modifier_notes == <<"n", "o", "t", "e", "s">>

Folders == {<<>>, Folder_jpm, Folder_jpm_slashes, Folder_tenant, Folder_url}
Endpoints == {<<>>, Endpoint_jobs, Endpoint_jobs_slashes}
Versions == {<<"2">>, <<"v", "2">>, <<"V", "3">>}
ResourceIds == {NoId, Id(<<"7">>)}
Modifiers == {<<>>, Modifier_notes}
TenantArgs == {<<>>, Tenant_99}

\* Clients made with and without a tenant, with a base URL given with and
\* without a trailing slash or left to the default.
InitUrl ==
    /\ access_token = None
    /\ token_expiry = 0
    /\ app_key = "app-key-1"
    /\ tenant \in {<<>>, Tenant_12, Tenant_123456}
    /\ base_url \in {Url_base, Url_base_bare, Url_api_integration}
    /\ now \in StartClocks
    /\ nreq = 0
    /\ last = NoLast
    /\ InitRest

\* client._prepare_url(path)
CallPrepareUrl ==
    /\ \E path \in UrlPaths :
          outcome' = [op |-> "_prepare_url", path |-> path,
                      ret |-> PrepareUrl(Self, path)]
    /\ UNCHANGED <<access_token, token_expiry, app_key, tenant, base_url, config,
                   user_zone, now, nreq, last, threads>>

\* client.build_url(folder, endpoint, version=..., resource_id=...,
\* modifier=..., tenant=...)
BuildUrlWith(folders, endpoints, versions, ids, modifiers, tenantArgs) ==
    /\ \E folder \in folders, endpoint \in endpoints, version \in versions,
          resource_id \in ids, modifier \in modifiers, tenant_arg \in tenantArgs :
          \E r \in {BuildUrl(Self, folder, endpoint, version, resource_id, modifier,
                             tenant_arg)} :
              outcome' = [op |-> "build_url", folder |-> folder, endpoint |-> endpoint,
                          version |-> version, resource_id |-> resource_id,
                          modifier |-> modifier, tenant_arg |-> tenant_arg,
                          raised |-> r.raised, ret |-> r.ret]
    /\ UNCHANGED <<access_token, token_expiry, app_key, tenant, base_url, config,
                   user_zone, now, nreq, last, threads>>

CallBuildUrl == BuildUrlWith(Folders, Endpoints, Versions, ResourceIds, Modifiers, TenantArgs)

NextUrl ==
    \/ CallPrepareUrl
    \/ CallBuildUrl

SpecUrl == InitUrl /\ [][NextUrl]_vars

\* _prepare_url was the last operation called.
Resolved == outcome.op = "_prepare_url"

\* The text without its leading, and without its trailing, slashes.
TrimLeft(s) ==
    LET kept == {i \in 1..Len(s) : s[i] # "/"}
    IN  IF kept = {} THEN <<>>
        ELSE SubSeq(s, CHOOSE i \in kept : \A j \in kept : i <= j, Len(s))

TrimRight(s) ==
    LET kept == {i \in 1..Len(s) : s[i] # "/"}
    IN  IF kept = {} THEN <<>>
        ELSE SubSeq(s, 1, CHOOSE i \in kept : \A j \in kept : i >= j)

\* The path begins with a scheme _prepare_url recognizes.
Absolute(path) ==
    \/ Len(path) >= 7 /\ SubSeq(path, 1, 7) = <<"h", "t", "t", "p", ":", "/", "/">>
    \/ Len(path) >= 8 /\ SubSeq(path, 1, 8) = <<"h", "t", "t", "p", "s", ":", "/", "/">>

\* The cleaned path begins with the segment tenant/.
TenantFirst(clean) ==
    Len(clean) >= 7 /\ SubSeq(clean, 1, 7) = <<"t", "e", "n", "a", "n", "t", "/">>

Built == outcome.op = "build_url" /\ outcome.raised = NoRaise

\* The tenant identifier build_url is to use.
TenantIdOf(tenant_arg) ==
    IF tenant_arg # <<>> THEN tenant_arg
    ELSE IF tenant # <<>> THEN tenant
    ELSE <<"{", "t", "e", "n", "a", "n", "t", "}">>

\* The version segment: v and the version, a version already written with
\* its v (in either case) being taken as it is, in lower case.
VersionSegmentOf(version) ==
    IF version = <<"2">> THEN <<"v", "2">>
    ELSE IF version = <<"v", "2">> THEN <<"v", "2">>
    ELSE <<"v", "3">>

\* baseUrl/folder/v<version>/tenant/<tenantId>/endpoint[/<id>][/<modifier>]
CanonicalUrl ==
    TrimRight(base_url) \o <<"/">> \o TrimRight(TrimLeft(outcome.folder)) \o <<"/">>
    \o VersionSegmentOf(outcome.version) \o <<"/", "t", "e", "n", "a", "n", "t", "/">>
    \o TenantIdOf(outcome.tenant_arg) \o <<"/">> \o TrimRight(TrimLeft(outcome.endpoint))
    \o (IF outcome.resource_id.given THEN <<"/">> \o outcome.resource_id.text ELSE <<>>)
    \o (IF outcome.modifier # <<>> THEN <<"/">> \o outcome.modifier ELSE <<>>)

\* C20 as stated: for a non-empty folder and endpoint build_url returns the
\* canonical URL, in which the tenant segment and the tenant identifier
\* stand exactly once.
C20_BuildUrlShape ==
    (outcome.op = "build_url" /\ outcome.folder # <<>> /\ outcome.endpoint # <<>>) =>
        /\ outcome.raised = NoRaise
        /\ outcome.ret = CanonicalUrl

\* What the model shows instead: with folder tenant and a configured
\* tenant, the configured tenant is inserted a second time, before the
\* version segment.
C20_TenantTwice ==
    /\ Built
    /\ outcome.folder = Folder_tenant
    /\ tenant = Tenant_12
    /\ outcome.tenant_arg = Tenant_99
    /\ outcome.version = <<"2">>
    /\ outcome.endpoint = Endpoint_jobs
    /\ outcome.resource_id = NoId
    /\ outcome.modifier = <<>>
    /\ base_url = Url_base_bare
    /\ outcome.ret = <<"h", "t", "t", "p", "s", ":", "/", "/", "a", "p", "i", "/", "t", "e", "n", "a", "n", "t", "/", "1", "2", "/", "v", "2", "/", "t", "e", "n", "a", "n", "t", "/", "9", "9", "/", "j", "o", "b", "s">>

\* Apart from a folder that is tenant or begins with a scheme, build_url
\* returns the canonical URL.
BuildUrlElsewhere ==
    (Built /\ TrimRight(TrimLeft(outcome.folder)) # Folder_tenant /\ ~Absolute(outcome.folder)) =>
        outcome.ret = CanonicalUrl
---------------------------------------------------------------------------
\* The date helpers, as far as they touch the client.
\*
\* user_zone is the attribute _user_zone: NoZone while the instance has no
\* such attribute, else the ZoneInfo object, named by its key.

\* Keys the time zone database knows; ZoneInfo raises for any other.
KnownZones == {"Australia/Sydney", "UTC"}

\* A slip of _get_user_zone: the zone is resolved and not stored.
GetUserZoneUncached(zone, local_timezone) ==
    IF zone = NoZone /\ local_timezone \notin KnownZones
    THEN [zone |-> zone, raised |-> "ZoneInfoNotFoundError", ret |-> NoZone]
    ELSE [zone |-> zone, raised |-> NoRaise,
          ret |-> IF zone = NoZone THEN local_timezone ELSE zone]

\* _get_user_zone: the attribute afterwards, the exception raised and the
\* zone returned.
GetUserZone(zone, local_timezone) ==
    IF zone = NoZone
    THEN IF local_timezone \in KnownZones
         THEN [zone |-> local_timezone, raised |-> NoRaise, ret |-> local_timezone]
         ELSE [zone |-> zone, raised |-> "ZoneInfoNotFoundError", ret |-> NoZone]
    ELSE [zone |-> zone, raised |-> NoRaise, ret |-> zone]

\* The helpers that take a datetime, those that take a datetime or a text,
\* those that take a text, and those that take a date.
DatetimeHelpers == {"to_utc", "to_utc_string", "format_local"}
EitherHelpers == {"from_utc"}
TextHelpers == {"from_utc_string", "st_date_to_local"}
DayHelpers ==
    {"local_start_of_day", "local_end_of_day", "start_of_day_utc", "end_of_day_utc",
     "start_of_day_utc_string", "end_of_day_utc_string"}

DateHelpers == DatetimeHelpers \cup EitherHelpers \cup TextHelpers \cup DayHelpers

\* The kinds of argument a helper is called with: a datetime without and
\* with tzinfo, a text datetime.fromisoformat accepts and one it rejects, a
\* date.
ArgKinds(helper) ==
    IF helper \in DatetimeHelpers THEN {"naive", "aware"}
    ELSE IF helper \in EitherHelpers THEN {"naive", "aware", "iso", "garbage"}
    ELSE IF helper \in TextHelpers THEN {"iso", "garbage"}
    ELSE {"date"}

\* The helper reaches _get_user_zone: to_utc only for a naive datetime, the
\* parsing helpers only when the text parses, the others always.
ResolvesZone(helper, kind) ==
    IF helper \in {"to_utc", "to_utc_string"} THEN kind = "naive"
    ELSE kind # "garbage"

\* A date helper called with an argument of the given kind: the attribute
\* afterwards, the exception raised and the zone the conversion used, if
\* it used the local one.
DateHelper(zone, local_timezone, helper, kind) ==
    IF kind = "garbage"
    THEN [zone |-> zone, raised |-> "ValueError", used |-> NoZone]
    ELSE IF ResolvesZone(helper, kind)
    THEN LET r == GetUserZone(zone, local_timezone)
         IN  [zone |-> r.zone, raised |-> r.raised, used |-> r.ret]
    ELSE [zone |-> zone, raised |-> NoRaise, used |-> NoZone]

\* Every operation of a client, side by side.

FrameAuths == {AuthLong, AuthDenied}

FrameResponses ==
    {RespConnError,
     RespHttp(200, OneHeader(Str_Content_Type, Str_application_json), "{a:1}", "obj-a")}

FrameGet == Call(Package, Str_GET, {Path_jobs}, {EmptyDict}, FrameAuths, {1}, FrameResponses)
FramePost == Call(Package, Str_POST, {Path_jobs}, {EmptyDict}, FrameAuths, {1}, FrameResponses)
FramePut == Call(Package, Str_PUT, {Path_jobs}, {EmptyDict}, FrameAuths, {1}, FrameResponses)
FramePatch == Call(Package, Str_PATCH, {Path_jobs}, {EmptyDict}, FrameAuths, {1}, FrameResponses)
FrameDelete == Call(Package, Str_DELETE, {Path_jobs}, {EmptyDict}, FrameAuths, {1}, FrameResponses)

FrameEnvs ==
    {PageEnv(AuthShort, 1, PageOf("page-b-more")),
     PageEnv(AuthDenied, 1, PageOf("page-c-last")),
     PageEnv(AuthLong, 1, PageOf("page-d-end"))}

FrameWorlds ==
    {w \in PageWorlds : Len(w) <= 2 /\ \A k \in 1..Len(w) : w[k] \in FrameEnvs}

FrameGetAll == FetchAll(FrameWorlds)

FrameGetAllIdFilter == FetchBatch({1, ChunkSize}, {"ids"}, {EmptyDict}, FrameEnvs)

FrameBuildUrl ==
    BuildUrlWith({Folder_jpm, Folder_tenant}, {Endpoint_jobs}, {<<"2">>}, {NoId},
                 {<<>>}, {<<>>, Tenant_99})

\* One call of a date helper.
CallDateHelper ==
    /\ \E helper \in DateHelpers :
          \E kind \in ArgKinds(helper) :
              \E r \in {DateHelper(user_zone, config.local_timezone, helper, kind)} :
                  /\ user_zone' = r.zone
                  /\ outcome' = [op |-> helper, kind |-> kind, raised |-> r.raised,
                                 used |-> r.used]
    /\ UNCHANGED <<access_token, token_expiry, app_key, tenant, base_url, config,
                   now, nreq, last, threads>>

TimezoneNames == {"Australia/Sydney", "Mars/Olympus"}

\* Clients made with a time zone name the database knows and with one it
\* does not know (__init__ does not look the name up), with and without a
\* tenant.
InitFrame ==
    /\ access_token = None
    /\ token_expiry = 0
    /\ app_key = "app-key-1"
    /\ tenant \in {<<>>, Tenant_12}
    /\ base_url = Url_base
    /\ \E tz \in TimezoneNames : config = [DefaultConfig EXCEPT !.local_timezone = tz]
    /\ user_zone = NoZone
    /\ threads = NoThreads
    /\ now \in StartClocks
    /\ nreq = 0
    /\ last = NoLast
    /\ outcome = NoOutcome

NextFrame ==
    \/ Tick
    \/ FrameGet
    \/ FramePost
    \/ FramePut
    \/ FramePatch
    \/ FrameDelete
    \/ FrameGetAll
    \/ FrameGetAllIdFilter
    \/ FrameBuildUrl
    \/ CallDateHelper

SpecFrame == InitFrame /\ [][NextFrame]_vars

\* The step is a call of a verb whose token exchange succeeded, or a call of
\* get_all or get_all_id_filter in which a token exchange succeeded, and
\* the stored token is the one issued.
RefreshedInStep ==
    /\ nreq' = nreq + 1
    /\ \/ /\ outcome'.op = "none"
          /\ last'.did.exchanges > 0
          /\ last'.auth \in AuthSuccesses
          /\ access_token' = last'.auth.access_token
       \/ /\ outcome'.op \in {"get_all", "get_all_id_filter"}
          /\ outcome'.did.exchanges > 0
          /\ \E k \in DOMAIN outcome'.world :
                /\ outcome'.world[k].auth \in AuthSuccesses
                /\ access_token' = outcome'.world[k].auth.access_token

\* The step leaves the configuration as it is, and the token and expiry too
\* unless a token exchange succeeded in it.
SingleWriterStep ==
    /\ config' = config
    /\ app_key' = app_key
    /\ tenant' = tenant
    /\ base_url' = base_url
    /\ (access_token' # access_token \/ token_expiry' # token_expiry) => RefreshedInStep

\* The step is a date helper's first use of the zone: the instance had no
\* _user_zone and now holds the zone of the configured name.
ZoneCachedInStep ==
    /\ outcome'.op \in DateHelpers
    /\ outcome'.raised = NoRaise
    /\ ResolvesZone(outcome'.op, outcome'.kind)
    /\ user_zone = NoZone
    /\ threads = NoThreads
    /\ user_zone' = config.local_timezone

\* C18 as stated: the token and expiry are changed only by a successful
\* token exchange, and no operation changes any other field of the
\* instance.
C18_SingleWriter ==
    [][SingleWriterStep /\ user_zone' = user_zone]_vars

\* C18 amended: the token and expiry are changed only by a successful token
\* exchange and no operation changes a configuration field; the one other
\* change to the instance is the attribute _user_zone, which the first date
\* helper that needs the zone adds and which never changes afterwards.
C18_SingleWriterButZone ==
    [][/\ SingleWriterStep
       /\ user_zone' # user_zone => ZoneCachedInStep
       /\ (outcome'.op \in DateHelpers /\ outcome'.raised = NoRaise
             /\ ResolvesZone(outcome'.op, outcome'.kind)) =>
                user_zone' = config.local_timezone]_vars

\* C18 witness: after a request that stored a token, format_local added the
\* zone to the instance, the token and the configuration being as before.
C18_Witness ==
    /\ outcome.op = "format_local"
    /\ outcome.raised = NoRaise
    /\ user_zone = "Australia/Sydney"
    /\ Refreshed
    /\ access_token = last.auth.access_token
    /\ config = DefaultConfig
---------------------------------------------------------------------------
\* The lifetime of a token.

\* C21 as stated: after a successful exchange the expiry is the clock value
\* of the exchange plus the declared expires_in when that is a number, and
\* plus 900 when expires_in is absent, a string or a boolean.
C21_LifetimeDefault ==
    Refreshed =>
        token_expiry = last.did.tRet
                       + (IF last.auth.expires_in.kind = "int"
                          THEN last.auth.expires_in.num ELSE 900)

\* What the model shows instead: a response declaring expires_in true
\* yields a token that expires one second after the exchange.
C21_BooleanLifetime ==
    /\ Refreshed
    /\ last.auth.expires_in = JBool(TRUE)
    /\ token_expiry = last.did.tRet + 1

\* Apart from a boolean, the lifetime is the declared number or 900.
LifetimeUnlessBoolean ==
    (Refreshed /\ last.auth.expires_in.kind # "bool") =>
        token_expiry = last.did.tRet
                       + (IF last.auth.expires_in.kind = "int"
                          THEN last.auth.expires_in.num ELSE 900)
---------------------------------------------------------------------------
\* The endpoints of a constructed client.

\* __init__ returned a client.
Constructed == Constructing /\ outcome.raised = NoRaise

\* The environment the arguments select.
SelectedProduction == outcome.args.environment \in {Str_production, Env_Production}

\* C22: a constructed client has environment integration or production;
\* its auth_url is the override when one was given and else the default of
\* that environment, and likewise its base_url, each whatever the other is.
C22_EndpointSelection ==
    /\ config # NoConfig => config.environment \in {Str_integration, Str_production}
    /\ Constructed =>
          /\ config.environment = IF SelectedProduction THEN Str_production
                                  ELSE Str_integration
          /\ config.auth_url =
                IF outcome.args.auth_url # "" THEN outcome.args.auth_url
                ELSE IF SelectedProduction
                THEN "https://auth.servicetitan.io/connect/token"
                ELSE "https://auth-integration.servicetitan.io/connect/token"
          /\ base_url =
                IF outcome.args.base_url # <<>> THEN outcome.args.base_url
                ELSE IF SelectedProduction THEN Url_api_production
                ELSE Url_api_integration

\* C22 witness: a client made for Production with only the auth URL
\* overridden has that auth URL and the production base URL.
C22_Witness ==
    /\ Constructed
    /\ outcome.args.environment = Env_Production
    /\ outcome.args.auth_url = "https://auth.example/token"
    /\ outcome.args.base_url = <<>>
    /\ config.auth_url = "https://auth.example/token"
    /\ base_url = Url_api_production
    /\ config.environment = Str_production
---------------------------------------------------------------------------
\* The reuse of a cached token.

---------------------------------------------------------------------------
\* The credential after a failed resource call.

\* The last verb call ended in a ServiceTitanAPIError.
FailedRequest == Called /\ last.did.raised = "ServiceTitanAPIError"

\* C29: a request that ends in a ServiceTitanAPIError, on a transport
\* failure or on a status of 400 or more, leaves in the store the token
\* and expiry the guard left there: those of before the call when the guard
\* asked for no token, those of the token response otherwise; and the next
\* request, made more than 60 seconds before that expiry, asks for no token
\* and sends the same one.
C29_FailureKeepsCredential ==
    /\ FailedRequest =>
          /\ Truthy(access_token)
          /\ last.did.ret = access_token
          /\ IF last.did.exchanges = 0
             THEN /\ access_token = last.before.access_token
                  /\ token_expiry = last.before.token_expiry
             ELSE /\ access_token = last.auth.access_token
                  /\ token_expiry = last.did.tRet + DeclaredLifetime(last.auth)
    /\ (Called /\ last.prev = "ServiceTitanAPIError"
          /\ last.t0 < last.before.token_expiry - 60) =>
          /\ last.did.exchanges = 0
          /\ last.did.ret = last.before.access_token
          /\ last.did.calls = 1
          /\ last.did.sent.headers[Str_Authorization] = Bearer(last.before.access_token)
          /\ access_token = last.before.access_token
          /\ token_expiry = last.before.token_expiry

\* C29 witness: a request was rejected with 401, and so was the next one,
\* made inside the validity window with the same token and without a token
\* exchange; the store still holds that token.
C29_Witness ==
    /\ nreq = 2
    /\ last.prev = "ServiceTitanAPIError"
    /\ FailedRequest
    /\ last.resp.conn # "error"
    /\ last.resp.status = 401
    /\ last.t0 < last.before.token_expiry - 60
    /\ last.did.exchanges = 0
    /\ access_token = last.before.access_token
    /\ token_expiry = last.before.token_expiry
---------------------------------------------------------------------------
\* Two threads of the host inside one client.  The interpreter may switch
\* threads between any two reads or writes of an attribute and while a
\* thread waits for a server, so a request is a sequence of steps here:
\* the guard's two reads, the token exchange, the refresher's two writes,
\* the guard's return and the resource call.

Threads == {1, 2}

\* The longest the clock runs while the threads are at work, in seconds.
MaxSeconds == 1

\* timeout=None, the default of _request, and a finite timeout.
NoTimeout == "None"
Timeouts == {NoTimeout, "30s"}

\* Servers that never answer.
AuthSilent ==
    [conn |-> "silent", status |-> 0, decodes |-> "invalid",
     access_token |-> JMissing, expires_in |-> JMissing]
RespSilent ==
    [conn |-> "silent", status |-> 0, headers |-> EmptyDict,
     raw |-> "", json |-> JsonInvalid]

\* What a call of the requests library does with an answer under a timeout:
\* without a timeout it waits for as long as the server stays silent.
Transport(answer, timeout) ==
    IF answer.conn # "silent" THEN "answered"
    ELSE IF timeout = NoTimeout THEN "blocked"
    ELSE "timed out"

\* A slip of _refresh_access_token: the request's timeout reaches
\* requests.post.
ExchangeTimeoutOfRequest(timeout) == timeout

\* The timeout of requests.post in _refresh_access_token, given the timeout
\* of the request: the call passes none.
ExchangeTimeout(timeout) == NoTimeout

\* The timeout of requests.request in _request.
ResourceTimeout(timeout) == timeout

\* A thread that is not inside a request.  timeout is the argument of the
\* request; t0 the local now of the guard; sawToken and sawExpiry what the
\* guard's condition read; auth the token response; ret the guard's result.
\* entry, after, tokenMine and expiryMine are not in the program: the
\* credential when the thread entered, the threads that had left by then,
\* and whether the stored token and the stored expiry were written by this
\* thread.
IdleThread ==
    [pc |-> "idle", timeout |-> NoTimeout, t0 |-> 0,
     entry |-> [access_token |-> None, token_expiry |-> 0], after |-> {},
     sawToken |-> None, sawExpiry |-> 0, passed |-> FALSE,
     exchanges |-> 0, auth |-> AuthUnasked, tokenMine |-> FALSE,
     expiryMine |-> FALSE, ret |-> None, resp |-> RespUnasked,
     raised |-> NoRaise, bearer |-> NoPayload]

\* The token response of the request made before the threads start.
AuthWarm == AuthHttp(200, "object", JStr("tok0"), JInt(61))

ThreadAuths == {AuthShort, AuthLong, AuthDenied, AuthSilent}

RespOk == RespHttp(200, OneHeader(Str_Content_Type, Str_application_json), "{a:1}", "obj-a")

ThreadResponses == {RespOk, RespHttp(401, EmptyDict, "<html>", JsonInvalid), RespSilent}

InitThreads ==
    /\ access_token = None
    /\ token_expiry = 0
    /\ app_key = "app-key-1"
    /\ tenant = <<>>
    /\ base_url = Url_base
    /\ now \in StartClocks
    /\ nreq = 0
    /\ config = DefaultConfig
    /\ user_zone = NoZone
    /\ outcome = NoOutcome
    /\ last = NoLast
    /\ threads = [t \in Threads |-> IdleThread]

\* What the steps of a thread leave alone.
ThreadFrame == UNCHANGED <<app_key, tenant, base_url, config, user_zone, nreq, last, outcome>>

\* Thread t goes on as rec.
Becomes(t, rec) == threads' = [threads EXCEPT ![t] = rec]

\* Thread t goes on as rec, having written the stored token.
BecomesTokenWriter(t, rec) ==
    threads' = [u \in Threads |->
                   IF u = t THEN [rec EXCEPT !.tokenMine = TRUE]
                   ELSE [threads[u] EXCEPT !.tokenMine = FALSE]]

\* Thread t goes on as rec, having written the stored expiry.
BecomesExpiryWriter(t, rec) ==
    threads' = [u \in Threads |->
                   IF u = t THEN [rec EXCEPT !.expiryMine = TRUE]
                   ELSE [threads[u] EXCEPT !.expiryMine = FALSE]]

\* One request made and answered before any thread starts.
Warm ==
    /\ \A t \in Threads : threads[t].pc = "idle"
    /\ access_token = None
    /\ \E r \in {Request(Self, Str_GET, Path_jobs, EmptyDict,
                         [t0 |-> now, auth |-> AuthWarm, t1 |-> now, resp |-> RespOk])} :
          /\ access_token' = r.self.access_token
          /\ token_expiry' = r.self.token_expiry
    /\ UNCHANGED <<now, threads>>
    /\ ThreadFrame

\* Thread t calls a verb: _request resolves the URL and the guard reads
\* the clock.
Enter(t) ==
    /\ threads[t].pc = "idle"
    /\ \E timeout \in Timeouts :
          Becomes(t, [IdleThread EXCEPT
                         !.pc = "check_token", !.timeout = timeout, !.t0 = now,
                         !.entry = [access_token |-> access_token,
                                    token_expiry |-> token_expiry],
                         !.after = {u \in Threads : threads[u].pc = "done"}])
    /\ UNCHANGED <<access_token, token_expiry, now>>
    /\ ThreadFrame

\* "not self._access_token", the left operand of the guard's condition.
CheckToken(t) ==
    /\ threads[t].pc = "check_token"
    /\ Becomes(t, [threads[t] EXCEPT
                      !.sawToken = access_token,
                      !.passed = ~Truthy(access_token),
                      !.pc = IF Truthy(access_token) THEN "check_expiry" ELSE "post"])
    /\ UNCHANGED <<access_token, token_expiry, now>>
    /\ ThreadFrame

\* "now >= (self._token_expiry - 60)", the right operand, evaluated when
\* the token read was present.
CheckExpiry(t) ==
    /\ threads[t].pc = "check_expiry"
    /\ \E refresh \in {NeedsRefresh([access_token |-> threads[t].sawToken,
                                     token_expiry |-> token_expiry],
                                    threads[t].t0)} :
          Becomes(t, [threads[t] EXCEPT
                         !.sawExpiry = token_expiry,
                         !.passed = refresh,
                         !.pc = IF refresh THEN "post" ELSE "return_token"])
    /\ UNCHANGED <<access_token, token_expiry, now>>
    /\ ThreadFrame

\* What _refresh_access_token makes of the answer: nothing while it waits,
\* an exception, or the two local values it goes on to store.
Exchange(th, auth, t) ==
    IF Transport(auth, ExchangeTimeout(th.timeout)) = "blocked"
    THEN [th EXCEPT !.pc = "blocked_auth", !.exchanges = @ + 1, !.auth = auth]
    ELSE LET answer == IF auth.conn = "silent" THEN AuthConnError ELSE auth
             r == RefreshAccessToken(Self, answer, t)
         IN  IF r.raised # NoRaise
             THEN [th EXCEPT !.pc = "done", !.exchanges = @ + 1, !.auth = auth,
                             !.raised = r.raised]
             ELSE [th EXCEPT !.pc = "write_token", !.exchanges = @ + 1,
                             !.auth = auth]

\* requests.post of _refresh_access_token and the checks of its answer.
Post(t) ==
    /\ threads[t].pc = "post"
    /\ \E auth \in ThreadAuths : Becomes(t, Exchange(threads[t], auth, now))
    /\ UNCHANGED <<access_token, token_expiry, now>>
    /\ ThreadFrame

\* self._access_token = access_token
WriteToken(t) ==
    /\ threads[t].pc = "write_token"
    /\ access_token' = Get(threads[t].auth, "access_token")
    /\ BecomesTokenWriter(t, [threads[t] EXCEPT !.pc = "write_expiry"])
    /\ UNCHANGED <<token_expiry, now>>
    /\ ThreadFrame

\* self._token_expiry = time.time() + float(expires_in)
WriteExpiry(t) ==
    /\ threads[t].pc = "write_expiry"
    /\ token_expiry' = ExpiryOf(threads[t].auth, now)
    /\ BecomesExpiryWriter(t, [threads[t] EXCEPT !.pc = "return_token"])
    /\ UNCHANGED <<access_token, now>>
    /\ ThreadFrame

\* "assert self._access_token is not None; return self._access_token"
ReturnToken(t) ==
    /\ threads[t].pc = "return_token"
    /\ Becomes(t, IF access_token = None
                  THEN [threads[t] EXCEPT !.pc = "done", !.raised = "AssertionError"]
                  ELSE [threads[t] EXCEPT !.pc = "send", !.ret = access_token])
    /\ UNCHANGED <<access_token, token_expiry, now>>
    /\ ThreadFrame

\* The thread after the resource call did d.
Sent(th, resp, d) ==
    [th EXCEPT !.pc = "done", !.resp = resp, !.raised = d.raised,
               !.bearer = d.sent.headers[Str_Authorization]]

\* What the rest of _request makes of the resource server's answer.
Resource(th, self, resp, t) ==
    IF Transport(resp, ResourceTimeout(th.timeout)) = "blocked"
    THEN [th EXCEPT !.pc = "blocked_resource", !.resp = resp]
    ELSE Sent(th, resp,
              Dispatch(self, Str_GET, PrepareUrl(self, Path_jobs),
                       [self |-> self, exchanges |-> th.exchanges,
                        raised |-> NoRaise, ret |-> th.ret, tRet |-> t],
                       EmptyDict,
                       IF resp.conn = "silent" THEN RespConnError ELSE resp))

\* requests.request of _request and the classification of its answer.
Send(t) ==
    /\ threads[t].pc = "send"
    /\ \E resp \in ThreadResponses : Becomes(t, Resource(threads[t], Self, resp, now))
    /\ UNCHANGED <<access_token, token_expiry, now>>
    /\ ThreadFrame

\* A second passes.
Second ==
    /\ \A c \in StartClocks : now < c + MaxSeconds
    /\ now' = now + 1
    /\ UNCHANGED <<access_token, token_expiry, threads>>
    /\ ThreadFrame

NextThreads ==
    \/ Warm
    \/ Second
    \/ \E t \in Threads : Enter(t)
    \/ \E t \in Threads : CheckToken(t)
    \/ \E t \in Threads : CheckExpiry(t)
    \/ \E t \in Threads : Post(t)
    \/ \E t \in Threads : WriteToken(t)
    \/ \E t \in Threads : WriteExpiry(t)
    \/ \E t \in Threads : ReturnToken(t)
    \/ \E t \in Threads : Send(t)

SpecThreads == InitThreads /\ [][NextThreads]_vars

---------------------------------------------------------------------------
\* Properties of two threads inside one client.

\* Thread t has asked the authorization server for a token.
ThreadExchanged(t) == threads[t].exchanges > 0

\* Thread t is past its check and, if the check said so, past its call of
\* the authorization server.
PastCheck(t) == threads[t].pc \notin {"idle", "check_token", "check_expiry", "post"}

\* Thread u had left its request when thread t entered: the host
\* serialized the two calls, u first.
CalledAfter(t, u) == u \in threads[t].after

\* C24: a thread asks for a token at most once per request and only after
\* its own check found the token absent or the clock inside the 60-second
\* margin of the expiry it read; nothing makes the check and the refresh
\* one step, so two threads may both pass the check on the same credential
\* and both ask (the witness).  When the host serializes the calls, the
\* second thread asks exactly when the credential the first one left is
\* absent or inside the margin, so a refresh by the first is not repeated.
C24_CheckThenRefresh ==
    \A t \in Threads :
        /\ threads[t].exchanges \in {0, 1}
        /\ ThreadExchanged(t) =>
              \/ ~Truthy(threads[t].sawToken)
              \/ threads[t].t0 >= threads[t].sawExpiry - 60
        /\ \A u \in Threads \ {t} :
              (CalledAfter(t, u) /\ PastCheck(t)) =>
                  /\ ThreadExchanged(t) <=>
                        \/ ~Truthy(threads[t].entry.access_token)
                        \/ threads[t].t0 >= threads[t].entry.token_expiry - 60
                  /\ (threads[u].expiryMine /\ threads[u].tokenMine
                        /\ threads[t].t0 < token_expiry - 60
                        /\ threads[t].pc # "write_expiry")
                        => ~ThreadExchanged(t)

\* C24 witness: a token was stored and the clock reached the margin of its
\* expiry; two threads both read that credential in their checks, and each
\* went on to its own token exchange.
C24_Witness ==
    /\ \A t \in Threads :
          /\ threads[t].sawToken = JStr("tok0")
          /\ threads[t].sawExpiry = threads[1].sawExpiry
          /\ threads[t].t0 = threads[t].sawExpiry - 60
          /\ threads[t].exchanges = 1
          /\ threads[t].auth \in AuthSuccesses
          /\ threads[t].pc = "done"
    /\ threads[1].auth # threads[2].auth

\* Two threads both found no token and each asked for one.
BothExchangedOnAbsent ==
    \A t \in Threads :
        /\ threads[t].passed
        /\ threads[t].sawToken = None
        /\ threads[t].exchanges = 1
        /\ threads[t].pc = "done"

\* No thread stands between the refresher's two assignments.
NoWriteUnderWay == \A t \in Threads : threads[t].pc # "write_expiry"

\* C25 as stated: under every interleaving of two refreshes the stored
\* token and the stored expiry come from the same token response, whenever
\* no refresh stands between its two assignments.
C25_WholesaleOverwrite ==
    NoWriteUnderWay =>
        \A t \in Threads : threads[t].tokenMine <=> threads[t].expiryMine

\* Both threads have left their requests; the store holds the token of one
\* thread's response, issued for 60 seconds, and the expiry computed from
\* the other's response, 900 seconds ahead.
C25_MixedPair ==
    \E a, b \in Threads :
        /\ a # b
        /\ threads[a].pc = "done" /\ threads[b].pc = "done"
        /\ threads[a].auth = AuthShort /\ threads[b].auth = AuthLong
        /\ threads[a].tokenMine /\ threads[b].expiryMine
        /\ access_token = AuthShort.access_token
        /\ token_expiry >= now - MaxSeconds + 900

\* When the host serializes the calls the stored pair is one response's.
PairedWhenSerialized ==
    (NoWriteUnderWay /\ \E t, u \in Threads : CalledAfter(t, u)) =>
        \A t \in Threads : threads[t].tokenMine <=> threads[t].expiryMine

---------------------------------------------------------------------------
\* Timeouts.

\* C30: the timeout of a request reaches the resource call only.  A thread
\* whose token exchange meets a silent authorization server stays in
\* requests.post whatever its timeout: it raises nothing and returns
\* nothing.  A silent resource server ends a request with a finite timeout
\* in a ServiceTitanAPIError and holds one without a timeout.
C30_ExchangeWithoutTimeout ==
    \A t \in Threads :
        /\ threads[t].auth = AuthSilent =>
              /\ threads[t].pc = "blocked_auth"
              /\ threads[t].raised = NoRaise
              /\ threads[t].ret = None
              /\ threads[t].resp = RespUnasked
        /\ threads[t].resp = RespSilent =>
              IF threads[t].timeout = NoTimeout
              THEN threads[t].pc = "blocked_resource" /\ threads[t].raised = NoRaise
              ELSE threads[t].pc = "done" /\ threads[t].raised = "ServiceTitanAPIError"

\* C30 witness: a request with a timeout of 30 seconds waits for the
\* authorization server, while the other thread's request, made with the
\* same timeout, has ended in a ServiceTitanAPIError on a silent resource
\* server.
C30_Witness ==
    \E t, u \in Threads :
        /\ threads[t].timeout = "30s"
        /\ threads[t].auth = AuthSilent
        /\ threads[t].pc = "blocked_auth"
        /\ threads[u].timeout = "30s"
        /\ threads[u].resp = RespSilent
        /\ threads[u].raised = "ServiceTitanAPIError"
        /\ threads[u].pc = "done"

---------------------------------------------------------------------------
\* get_all one turn of its loop at a time, against servers that hold any
\* number of pages.

\* A slip of get_all: a page limit.
GetAllTurnLimited(page, seen, raised, payload) ==
    IF raised # NoRaise
    THEN [acc |-> seen, page |-> page, go |-> "return"]
    ELSE IF ~IsDict(payload)
    THEN [acc |-> seen, page |-> page, go |-> "return"]
    ELSE IF DataOrEmpty(DataOf(payload)).kind # "list"
    THEN [acc |-> [seen EXCEPT !.raised = "TypeError"], page |-> page, go |-> "raise"]
    ELSE IF Truthy(HasMoreOf(payload)) /\ page < MaxPages
    THEN [acc |-> [seen EXCEPT !.output = @ \o DataOrEmpty(DataOf(payload)).items],
          page |-> page + 1, go |-> "continue"]
    ELSE [acc |-> [seen EXCEPT !.output = @ \o DataOrEmpty(DataOf(payload)).items],
          page |-> page, go |-> "return"]

\* What one turn of the loop of get_all comes to after self.get raised or
\* returned payload, seen being the record up to and including that call:
\* the record, the page to ask for next, and whether the loop goes on.
GetAllTurn(page, seen, raised, payload) ==
    IF raised # NoRaise
    THEN [acc |-> seen, page |-> page, go |-> "return"]     \* except Exception: break
    ELSE IF ~IsDict(payload)
    THEN [acc |-> seen, page |-> page, go |-> "return"]
    ELSE IF DataOrEmpty(DataOf(payload)).kind # "list"
    THEN [acc |-> [seen EXCEPT !.raised = "TypeError"], page |-> page, go |-> "raise"]
    ELSE IF Truthy(HasMoreOf(payload))
    THEN [acc |-> [seen EXCEPT !.output = @ \o DataOrEmpty(DataOf(payload)).items],
          page |-> page + 1, go |-> "continue"]
    ELSE [acc |-> [seen EXCEPT !.output = @ \o DataOrEmpty(DataOf(payload)).items],
          page |-> page, go |-> "return"]

\* One turn of the loop, r being what self.get did.
GetAllTurnOf(page, acc, r) ==
    GetAllTurn(page, GetAllSeen(r, page, acc), r.raised, r.payload)

\* A server holds the pages it lists and after them, if it is endless, the
\* same page for every page number.
ServerPage(server, k) ==
    IF k <= Len(server.pages) THEN server.pages[k] ELSE server.rest

\* Pages that declare more and come with a token valid for long or for a
\* minute.
OpenPages ==
    {PageEnv(AuthLong, 1, PageOf("page-a-more")),
     PageEnv(AuthShort, 1, PageOf("page-nodata-more"))}

\* Pages that do not declare more, a body that is not an object, and
\* failing dispatches.
ClosingPages ==
    {PageEnv(AuthLong, 1, PageOf("page-c-last")),
     PageEnv(AuthShort, 1, PageOf("page-d-end")),
     PageEnv(AuthLong, 1, PageOf("array")),
     PageEnv(AuthLong, 1, RespHttp(200, OneHeader(Str_Content_Type, Ct_text),
                                   "page-a-more", "page-a-more")),
     PageEnv(AuthLong, 1, RespHttp(404, JsonHeaders, "obj-a", "obj-a")),
     PageEnv(AuthShort, 1, RespConnError)}

\* Servers whose page n, for an n up to MaxPages, closes the fetch.
ClosingServers ==
    UNION {{[kind |-> "closing", pages |-> w \o <<e>>, rest |-> e] :
               w \in [1..n -> OpenPages], e \in ClosingPages} :
           n \in 0..(MaxPages - 1)}

\* Servers that answer hasMore on every page.
EndlessServers ==
    {[kind |-> "endless", pages |-> w, rest |-> e] :
        w \in [1..1 -> OpenPages], e \in OpenPages}

Servers == ClosingServers \cup EndlessServers

\* The caller's thread outside get_all.
NotFetching == [pc |-> "idle"]

InitPagingSteps ==
    /\ \E c \in CachedTokens :
          /\ access_token = c.access_token
          /\ token_expiry = c.token_expiry
    /\ app_key = "app-key-1"
    /\ tenant = <<>>
    /\ base_url = Url_base
    /\ now \in StartClocks
    /\ nreq = 0
    /\ last = NoLast
    /\ config = DefaultConfig
    /\ user_zone = NoZone
    /\ outcome = NoOutcome
    /\ threads = <<NotFetching>>

\* get_all is called: page = 1, output = [].
EnterGetAll ==
    /\ threads[1].pc = "idle"
    /\ \E server \in Servers :
          threads' = <<[pc |-> "loop", server |-> server, page |-> 1,
                        acc |-> GetAllStart(Self, now)]>>
    /\ UNCHANGED <<access_token, token_expiry, app_key, tenant, base_url, config,
                   user_zone, now, nreq, last, outcome>>

\* The state after a turn of the loop came to turn.
Turned(turn) ==
    /\ access_token' = turn.acc.self.access_token
    /\ token_expiry' = turn.acc.self.token_expiry
    /\ now' = turn.acc.t
    /\ threads' = <<[threads[1] EXCEPT
                        !.pc = CASE turn.go = "continue" -> "loop"
                                 [] turn.go = "return" -> "returned"
                                 [] turn.go = "raise" -> "raised",
                        !.page = turn.page,
                        !.acc = turn.acc]>>
    /\ UNCHANGED <<app_key, tenant, base_url, config, user_zone, nreq, last, outcome>>

\* One self.get against the page env.
GetPage(acc, env) ==
    get(acc.self, Path_jobs, EmptyDict,
        [t0 |-> acc.t, auth |-> env.auth, t1 |-> acc.t + env.d, resp |-> env.resp])

\* One turn of "while True" in get_all.  The model follows the loop up to
\* page MaxPages + 1.
TurnPage ==
    /\ threads[1].pc = "loop"
    /\ threads[1].page <= MaxPages + 1
    /\ \E r \in {GetPage(threads[1].acc,
                         ServerPage(threads[1].server, threads[1].page))} :
          \E turn \in {GetAllTurnOf(threads[1].page, threads[1].acc, r)} :
              Turned(turn)

NextPagingSteps ==
    \/ EnterGetAll
    \/ TurnPage

SpecPagingSteps == InitPagingSteps /\ [][NextPagingSteps]_vars

\* The thread inside get_all keeps running: every self.get returns or
\* raises, and nothing else stands between two turns of the loop.
FairPagingSteps == SpecPagingSteps /\ WF_vars(TurnPage)

---------------------------------------------------------------------------
\* Termination of get_all.

\* The k-th self.get of the fetch under way failed, or came back with
\* something that is not an object, or with an object that declares no
\* more pages.
Closes(k) ==
    \/ threads[1].acc.pages[k].raised # NoRaise
    \/ ~IsDict(threads[1].acc.pages[k].payload)
    \/ ~Truthy(HasMoreOf(threads[1].acc.pages[k].payload))

Fetching == threads[1].pc = "loop"
FetchReturned == threads[1].pc = "returned"

\* While get_all loops it has asked for pages 1..n, none of which closed
\* the fetch, and goes on to page n + 1; when it has returned, the last
\* page asked for closed the fetch and none before it did; against an
\* endless server it has not returned.
FetchStopsOnClosingOnly ==
    /\ Fetching =>
          /\ threads[1].acc.asked = [k \in 1..(threads[1].page - 1) |-> k]
          /\ \A k \in 1..Len(threads[1].acc.asked) : ~Closes(k)
    /\ FetchReturned =>
          /\ threads[1].acc.asked = [k \in 1..threads[1].page |-> k]
          /\ Closes(threads[1].page)
          /\ \A k \in 1..(threads[1].page - 1) : ~Closes(k)
          /\ threads[1].acc.raised = NoRaise
    /\ threads[1].pc # "idle" =>
          /\ threads[1].server.kind = "endless" => Fetching
          /\ threads[1].pc # "raised"

\* C27: get_all returns with the first response that fails, is not an
\* object or declares no more pages, and not before; so it returns whenever
\* the server has such a response on some page, and against a server that
\* declares hasMore on every page it never returns but asks for page after
\* page, beyond every number of pages (followed here up to MaxPages + 2).
C27_FetchTermination ==
    /\ []FetchStopsOnClosingOnly
    /\ (Fetching /\ threads[1].server.kind = "closing") ~> FetchReturned
    /\ (Fetching /\ threads[1].server.kind = "endless")
          ~> (Fetching /\ threads[1].page = MaxPages + 2)

\* C27 witness: the third page failed with a 404 and get_all returned the
\* data of the first two.
C27_Witness ==
    /\ FetchReturned
    /\ threads[1].server.kind = "closing"
    /\ threads[1].acc.asked = <<1, 2, 3>>
    /\ threads[1].acc.pages[3].raised = "ServiceTitanAPIError"
    /\ threads[1].acc.output = <<"a1", "a2", "a1", "a2">>

\* Against an endless server get_all is about to ask for page MaxPages + 2.
StillFetching ==
    /\ Fetching
    /\ threads[1].server.kind = "endless"
    /\ threads[1].page = MaxPages + 2
    /\ Len(threads[1].acc.asked) = MaxPages + 1

---------------------------------------------------------------------------
\* The local time zone over the life of a client.

\* Names the caller may assign to local_timezone.
ZoneAssignments == {"Australia/Sydney", "UTC", "Mars/Olympus"}

InitZone ==
    /\ access_token = None
    /\ token_expiry = 0
    /\ app_key = "app-key-1"
    /\ tenant = <<>>
    /\ base_url = Url_base
    /\ \E tz \in ZoneAssignments : config = [DefaultConfig EXCEPT !.local_timezone = tz]
    /\ user_zone = NoZone
    /\ threads = NoThreads
    /\ now \in StartClocks
    /\ nreq = 0
    /\ last = NoLast
    /\ outcome = NoOutcome

\* client.local_timezone = name, an assignment by the caller.
SetLocalTimezone ==
    /\ \E name \in ZoneAssignments :
          /\ name # config.local_timezone
          /\ config' = [config EXCEPT !.local_timezone = name]
          /\ outcome' = [op |-> "local_timezone =", from |-> config.local_timezone,
                         cached |-> user_zone]
    /\ UNCHANGED <<access_token, token_expiry, app_key, tenant, base_url, user_zone,
                   now, nreq, last, threads>>

NextZone ==
    \/ CallDateHelper
    \/ SetLocalTimezone

SpecZone == InitZone /\ [][NextZone]_vars

\* The last operation was a date helper that converted with the local zone.
UsedLocalZone == outcome.op \in DateHelpers /\ outcome.used # NoZone

\* C28 as stated: a date helper converts with the zone that local_timezone
\* names when the helper is called, also when the name was changed after
\* construction and after an earlier helper call.
C28_TimezoneChangeApplies ==
    UsedLocalZone => outcome.used = config.local_timezone

\* local_timezone was changed from Australia/Sydney to UTC after a helper
\* had run, and to_utc then converted a naive datetime as Sydney time.
C28_StaleZone ==
    /\ outcome.op = "to_utc"
    /\ outcome.kind = "naive"
    /\ outcome.raised = NoRaise
    /\ config.local_timezone = "UTC"
    /\ outcome.used = "Australia/Sydney"

\* What the helpers do: they convert with the zone resolved by the first
\* helper call that resolved one, whatever local_timezone names later.
ZoneUsedIsFirstResolved ==
    /\ UsedLocalZone => outcome.used = user_zone
    /\ (outcome.op = "local_timezone =" /\ outcome.cached # NoZone) =>
          user_zone = outcome.cached

---------------------------------------------------------------------------
\* The assertion of the guard.

\* C31: no call raises AssertionError; whenever the guard returned a token,
\* the stored token is present and not empty and is the token returned;
\* and a token response whose access_token is missing, null or empty ends
\* the call in ServiceTitanAuthError with the store as it was, so a refresh
\* that returns has stored a token that is not empty.
C31_AssertionNeverFails ==
    Called =>
        /\ last.did.raised # "AssertionError"
        /\ TokenReturned =>
              /\ access_token # None
              /\ Truthy(access_token)
              /\ last.did.ret = access_token
        /\ (Exchanged /\ last.did.raised \in {NoRaise, "ServiceTitanAPIError"}) =>
              /\ Truthy(last.auth.access_token)
              /\ access_token = last.auth.access_token
        /\ (Exchanged /\ last.auth.conn = "response" /\ last.auth.status = 200
              /\ last.auth.decodes = "object" /\ ~Truthy(last.auth.access_token)) =>
              /\ last.did.raised = "ServiceTitanAuthError"
              /\ access_token = last.before.access_token

\* C31 witness: an exchange that answered an empty access_token was
\* rejected and left the store empty; the next call's exchange stored a
\* token and the guard returned it.
C31_Witness ==
    /\ nreq = 2
    /\ last.prev = "ServiceTitanAuthError"
    /\ last.before.access_token = None
    /\ Refreshed
    /\ TokenReturned
    /\ last.did.ret = access_token
    /\ Truthy(access_token)

\* Two threads: no thread fails the assertion, and the token a guard has
\* returned is not empty.
ThreadsNeverFailAssertion ==
    \A t \in Threads :
        /\ threads[t].raised # "AssertionError"
        /\ threads[t].pc \in {"send", "blocked_resource"} => Truthy(threads[t].ret)

---------------------------------------------------------------------------
\* The caller's params mapping across a fetch.

\* The local params of get_all after it asked for the pages in asked:
\* params['page'] = page before the loop and in every turn, the number
\* written in decimal here.
RECURSIVE PageParams(_, _)
PageParams(params, asked) ==
    IF asked = <<>>
    THEN SetParam(params, "page", Decimal(1))
    ELSE SetParam(PageParams(params, SubSeq(asked, 1, Len(asked) - 1)),
                  "page", Decimal(asked[Len(asked)]))

Str_true == <<"t", "r", "u", "e">>

\* What the caller passes as params: nothing or an empty mapping, a
\* mapping without 'page' and without an identifier filter, and one that
\* holds a 'page' of the caller's.
ParamsPassed ==
    {EmptyDict,
     [k \in {"active"} |-> Str_true],
     [k \in {"active", "page"} |-> IF k = "page" THEN <<"7">> ELSE Str_true]}

\* Servers of up to MaxPages pages for the fetches with params.
ParamWorlds ==
    {w \in PageWorlds :
        \A k \in 1..Len(w) :
            w[k] \in {PageEnv(AuthLong, 1, PageOf("page-a-more")),
                      PageEnv(AuthLong, 1, PageOf("page-c-last")),
                      PageEnv(AuthLong, 1, RespHttp(404, JsonHeaders, "obj-a", "obj-a"))}}

\* One call of get_all with params.  Besides the page number, which goes
\* into params, get_all passes params on to self.get unchanged.
FetchAllWith(worlds, paramMaps) ==
    /\ nreq < MaxFetches
    /\ \E world \in worlds, params \in paramMaps :
          \E r \in {GetAll(Self, Path_jobs, EmptyDict, world, now)} :
              Fetched(r, [op |-> "get_all", before |-> Self, t0 |-> now,
                          params |-> params,
                          caller |-> CallerParamsAfter(params,
                                                       PageParams(params, r.asked)),
                          world |-> SubSeq(world, 1, Len(r.asked)), did |-> r])

CallGetAllWithParams == FetchAllWith(ParamWorlds, ParamsPassed)

ParamIdCounts == {0, 1, ChunkSize, ChunkSize + 1, 2 * ChunkSize}

ParamChunkEnvs ==
    {PageEnv(AuthLong, 1, PageOf("page-a-more")),
     PageEnv(AuthLong, 1, PageOf("page-d-end"))}

CallGetAllIdFilterWithParams ==
    FetchBatch(ParamIdCounts, FilterNames, ParamsPassed, ParamChunkEnvs)

NextParams ==
    \/ Tick
    \/ CallGetAllWithParams
    \/ CallGetAllIdFilterWithParams

SpecParams == InitFetch /\ [][NextParams]_vars

\* A fetch has returned.
FetchReturnedWith(op) == outcome.op = op /\ outcome.did.raised = NoRaise

\* The caller's mapping holds what it held before under every name other
\* than name.
SameBut(name) ==
    /\ DOMAIN outcome.caller = DOMAIN outcome.params \cup {name}
    /\ \A k \in DOMAIN outcome.params \ {name} : outcome.caller[k] = outcome.params[k]

\* The identifiers of the last chunk of a list of n.
LastChunk(n) ==
    IF n < ChunkSize THEN Ids(n)
    ELSE SubSeq(Ids(n), ChunkSize * (ChunksOf(n) - 1) + 1, n)

\* C32: after get_all has returned, a mapping the caller passed that was
\* not empty holds 'page' with the number of the last page asked for, and
\* is otherwise as it was; after get_all_id_filter has returned it holds,
\* under one name more, the comma-joined identifiers of the last chunk; a
\* params that was absent or empty is as it was.
C32_CallerParamsWritten ==
    /\ (FetchReturnedWith("get_all") /\ outcome.params # EmptyDict) =>
          /\ SameBut("page")
          /\ outcome.caller["page"]
                = Decimal(outcome.did.asked[Len(outcome.did.asked)])
    /\ (FetchReturnedWith("get_all_id_filter") /\ outcome.params # EmptyDict) =>
          \E name \in {outcome.name, "ids"} :
              /\ SameBut(name)
              /\ outcome.caller[name] = Join(LastChunk(outcome.n))
              /\ outcome.caller =
                    outcome.did.sent[Len(outcome.did.sent)]
    /\ (outcome.op \in {"get_all", "get_all_id_filter"}
          /\ outcome.params = EmptyDict) =>
          outcome.caller = EmptyDict

\* C32 witness: the caller passed {'active': 'true', 'page': '7'}; get_all
\* asked for three pages and returned, and the mapping holds page 3.
C32_Witness ==
    /\ FetchReturnedWith("get_all")
    /\ "page" \in DOMAIN outcome.params
    /\ outcome.params["page"] = <<"7">>
    /\ outcome.did.asked = <<1, 2, 3>>
    /\ outcome.caller["page"] = <<"3">>
    /\ outcome.caller["active"] = Str_true

\* The caller passed {'active': 'true'} and 51 identifiers under jobIds;
\* the mapping holds the last identifier under ids.
CallerHoldsLastChunk ==
    /\ FetchReturnedWith("get_all_id_filter")
    /\ outcome.n = ChunkSize + 1
    /\ outcome.name = "jobIds"
    /\ DOMAIN outcome.params = {"active"}
    /\ DOMAIN outcome.caller = {"active", "ids"}
    /\ outcome.caller["ids"] = <<"5", "1">>

---------------------------------------------------------------------------
\* Chunk responses without a data array.

\* Request k of the batch came back as an object whose data is missing or
\* null.
WithoutData(k) ==
    /\ Received(k)
    /\ Doc(outcome.world[k].resp.json).data.kind \in {"missing", "null"}

\* C33 as stated: whatever the length of the list, a chunk response with
\* status < 400 whose data is missing or null raises no error and adds
\* nothing to the result.
C33_MissingDataIsEmpty ==
    GotBatch =>
        \A k \in 1..Len(outcome.did.sent) :
            WithoutData(k) =>
                /\ outcome.did.raised # "TypeError"
                /\ (\A j \in 1..Len(outcome.did.sent) : Received(j)) =>
                      /\ outcome.did.raised = NoRaise
                      /\ outcome.did.ret =
                            DataList(Concat([j \in 1..Len(outcome.did.sent) |-> PageData(j)]))

\* A list of 50 identifiers went out in one request; the answer was an
\* object with a null data and get_all_id_filter raised TypeError.
C33_NullDataRaises ==
    /\ GotBatch
    /\ outcome.n = ChunkSize
    /\ Len(outcome.did.sent) = 1
    /\ Received(1)
    /\ Doc(outcome.world[1].resp.json).data = DataNull
    /\ outcome.did.raised = "TypeError"

\* Lists shorter than 50 do treat a response without data as empty.
ShortListsTakeMissingData ==
    (GotBatch /\ outcome.n < ChunkSize /\ WithoutData(1)) =>
        /\ outcome.did.raised = NoRaise
        /\ outcome.did.ret = DataList(<<>>)

\* Lists of 50 or more raise TypeError on the first such response.
LongListsRaiseOnMissingData ==
    (GotBatch /\ outcome.n >= ChunkSize) =>
        \A k \in 1..Len(outcome.did.sent) :
            WithoutData(k) =>
                /\ k = Len(outcome.did.sent)
                /\ outcome.did.raised = "TypeError"

---------------------------------------------------------------------------
\* Resolving a URL that was resolved already.

Url_http_api == <<"h", "t", "t", "p", ":", "/", "/", "a", "p", "i">>
Url_scheme_only == <<"h", "t", "t", "p", "s", ":", "/", "/">>
Url_no_scheme == <<"a", "p", "i", ".", "l", "o", "c", "a", "l", "/">>
Url_HTTPS == <<"H", "T", "T", "P", "S", ":", "/", "/", "a", "p", "i">>

\* Base URLs a client may be made with: __init__ takes any text that is
\* not empty.
BaseUrls ==
    {Url_base, Url_base_bare, Url_http_api, Url_scheme_only, Url_no_scheme, Url_HTTPS}

InitTwice ==
    /\ access_token = None
    /\ token_expiry = 0
    /\ app_key = "app-key-1"
    /\ tenant \in {<<>>, Tenant_12}
    /\ base_url \in BaseUrls
    /\ now \in StartClocks
    /\ nreq = 0
    /\ last = NoLast
    /\ InitRest

\* url = client._prepare_url(path); client._prepare_url(url), as _request
\* does when url is passed as the path of a verb.
ResolveTwice ==
    /\ \E path \in UrlPaths :
          \E url \in {PrepareUrl(Self, path)} :
              outcome' = [op |-> "_prepare_url twice", path |-> path,
                          raised |-> NoRaise, ret |-> url,
                          again |-> PrepareUrl(Self, url)]
    /\ UNCHANGED <<access_token, token_expiry, app_key, tenant, base_url, config,
                   user_zone, now, nreq, last, threads>>

\* What resolving the result r of build_url once more gives.
ResolvedAgain(self, r) ==
    IF r.raised = NoRaise THEN PrepareUrl(self, r.ret) ELSE r.ret

\* url = client.build_url(...); client._prepare_url(url)
BuildThenResolve ==
    /\ \E folder \in {Folder_jpm, Folder_tenant, Folder_url},
          endpoint \in {Endpoint_jobs, <<>>},
          resource_id \in ResourceIds, tenant_arg \in TenantArgs :
          \E r \in {BuildUrl(Self, folder, endpoint, <<"2">>, resource_id, <<>>,
                             tenant_arg)} :
              outcome' = [op |-> "build_url twice", path |-> folder,
                          raised |-> r.raised, ret |-> r.ret,
                          again |-> ResolvedAgain(Self, r)]
    /\ UNCHANGED <<access_token, token_expiry, app_key, tenant, base_url, config,
                   user_zone, now, nreq, last, threads>>

NextTwice ==
    \/ ResolveTwice
    \/ BuildThenResolve

SpecTwice == InitTwice /\ [][NextTwice]_vars

\* A URL was resolved and the result resolved again.
ResolvedTwice ==
    /\ outcome.op \in {"_prepare_url twice", "build_url twice"}
    /\ outcome.raised = NoRaise

\* C34 as stated: for a client whose base URL begins with http:// or
\* https://, resolving the URL that _prepare_url or build_url returned gives
\* the same URL.
C34_ResolutionIdempotent ==
    (ResolvedTwice /\ Absolute(base_url)) => outcome.again = outcome.ret

\* C34 amended: the same, for a client whose base URL still begins with
\* http:// or https:// once its trailing slashes are removed, that is, one
\* that has anything but slashes after the scheme; the URL is then returned
\* as it is, with the base URL and the tenant in it once.
C34_IdempotentWithHost ==
    (ResolvedTwice /\ Absolute(TrimRight(base_url))) =>
        /\ outcome.again = outcome.ret
        /\ Absolute(outcome.ret)

\* C34 witness: with tenant 12 and base URL https://api/, tenant/employees
\* resolved to https://api/tenant/12/employees, and this resolved to itself.
C34_Witness ==
    /\ outcome.op = "_prepare_url twice"
    /\ base_url = Url_base
    /\ tenant = Tenant_12
    /\ outcome.path = Path_tenant_rel
    /\ outcome.ret = <<"h", "t", "t", "p", "s", ":", "/", "/", "a", "p", "i", "/", "t", "e", "n", "a", "n", "t", "/", "1", "2", "/", "e", "m", "p", "l", "o", "y", "e", "e", "s">>
    /\ outcome.again = outcome.ret

\* A URL built by build_url resolved to itself.
BuiltUrlResolvedToItself ==
    /\ outcome.op = "build_url twice"
    /\ outcome.raised = NoRaise
    /\ outcome.path = Folder_jpm
    /\ base_url = Url_http_api
    /\ outcome.again = outcome.ret

\* With the base URL https:// the first result is https:/jpm/v2/jobs, which
\* is joined to the base URL again.
SchemeOnlyBaseJoinsTwice ==
    /\ outcome.op = "_prepare_url twice"
    /\ base_url = Url_scheme_only
    /\ outcome.path = Path_jobs
    /\ outcome.ret = <<"h", "t", "t", "p", "s", ":", "/">> \o Path_jobs
    /\ outcome.again = <<"h", "t", "t", "p", "s", ":", "/">> \o outcome.ret

---------------------------------------------------------------------------
\* The two module copies side by side: a client of each, made alike, given
\* the same calls, the same clock and the same answers.  The package's
\* client is the state above; the second copy's client and what its last
\* call did are kept in outcome.

BesideStart ==
    [op |-> "client.py", self |-> Self, did |-> NoLast.did]

InitBeside ==
    /\ access_token = None
    /\ token_expiry = 0
    /\ app_key = "app-key-1"
    /\ tenant \in {<<>>, Tenant_12}
    /\ base_url = Url_base
    /\ now \in StartClocks
    /\ nreq = 0
    /\ last = NoLast
    /\ config = DefaultConfig
    /\ user_zone = NoZone
    /\ threads = NoThreads
    /\ outcome = BesideStart

\* The state after the package's client did r, observed as obs, and the
\* second copy's client did r2.
ReturnedBeside(r, obs, r2) ==
    /\ access_token' = r.self.access_token
    /\ token_expiry' = r.self.token_expiry
    /\ app_key' = r.self.app_key
    /\ tenant' = r.self.tenant
    /\ base_url' = r.self.base_url
    /\ now' = r.tRet
    /\ nreq' = nreq + 1
    /\ last' = obs
    /\ outcome' = [op |-> "client.py", self |-> r2.self, did |-> r2]
    /\ UNCHANGED <<config, user_zone, threads>>

\* One call of the same verb on both clients with inputs from the given
\* sets.
CallBeside(method, paths, headerMaps, auths, latencies, resps) ==
    /\ nreq < MaxRequests
    /\ \E path \in paths, headers \in headerMaps, auth \in auths,
          d \in latencies, resp \in resps :
          \E env \in {[t0 |-> now, auth |-> auth, t1 |-> now + d, resp |-> resp]} :
          \E r \in {Invoke(Package, method, Self, path, headers, env)} :
          \E r2 \in {Invoke(RootCopy, method, outcome.self, path, headers, env)} :
              ReturnedBeside(r, Observed(method, path, headers, env, r), r2)

\* A get with every token response.
BesideGet ==
    CallBeside(Str_GET, {Path_jobs}, {EmptyDict}, AuthResponses, Latencies,
               CoreResponses)

\* A get with each of the caller's header maps.
BesideSendHeaders ==
    CallBeside(Str_GET, {Path_abs}, CallerHeaders, DispatchAuths, {0}, JsonResponses)

\* A post answered by each of the resource responses.
BesideClassify ==
    CallBeside(Str_POST, {Path_tenant_employees}, {EmptyDict}, DispatchAuths, {0},
               AllResponses)

NextBeside ==
    \/ Tick
    \/ BesideGet
    \/ BesideSendHeaders
    \/ BesideClassify

SpecBeside == InitBeside /\ [][NextBeside]_vars

\* Both clients have made a call.
BothCalled == outcome.op = "client.py" /\ nreq > 0

\* The last response had a status below 400 and a content type that does
\* not announce JSON.
NonJsonSuccess ==
    /\ last.resp.conn = "response"
    /\ last.resp.status < 400
    /\ ~DeclaresJson(last.resp)

BothFailedToRefresh ==
    /\ BothCalled
    /\ nreq = 2
    /\ last.before.access_token # None
    /\ last.t0 = last.before.token_expiry - SafetyMargin
    /\ last.did.exchanges = 1
    /\ outcome.did.exchanges = 1
    /\ last.did.raised = "ServiceTitanAuthError"
    /\ outcome.did.raised = "ServiceTitanAuthError"
    /\ outcome.self.access_token = last.before.access_token

\* For an image whose body is not JSON the package returned the bytes and
\* the second copy the text.
BytesAgainstText ==
    /\ BothCalled
    /\ last.resp.conn = "response"
    /\ last.resp.headers = OneHeader(Str_Content_Type, Ct_GIF)
    /\ last.resp.json = JsonInvalid
    /\ last.did.payload = <<"bytes", "<html>">>
    /\ outcome.did.payload = <<"text", "<html>">>

\* Whenever the response declares JSON, or is an error, the two copies
\* return and raise the same.
SameOnJsonAndErrors ==
    (BothCalled /\ ~NonJsonSuccess) =>
        /\ outcome.did.payload = last.did.payload
        /\ outcome.did.raised = last.did.raised

===========================================================================
